---- MODULE Spec2Model ----
(***************************************************************************)
(* Browser automation orchestration core of the oracle repository:         *)
(*   - the cross-process browser lock   (src/unnamed/part_000, lock.ts)    *)
(*   - the run orchestrator             (src/unnamed/part_001)             *)
(*   - the attachment completion wait   (src/src/browser/actions/          *)
(*                                       attachments.ts)                   *)
(* Every await of the source is a step of its own, so that other processes *)
(* and the environment (clock, page, process deaths) interleave there.     *)
(***************************************************************************)
EXTENDS Integers, Sequences, FiniteSets, TLC

(***************************************************************************)
(* Bounds of the model.                                                    *)
(***************************************************************************)
\* number of processes that may contend for the lock
NumProcs == 2
\* number of calls of one release closure
MaxReleaseCalls == 2
\* number of distinct page locations
NumUrls == 2
\* number of polls of verifyAttachmentsVisible before its deadline
MaxPolls == 4
\* number of attachments of a run
MaxAttachments == 2
\* length of the filenames given to normalizeFilename
MaxNameLen == 4
\* length of the locations the page may be at after a recovery
MaxUrlLen == 5
\* number of calls of saveSessionState on one session directory
MaxSaves == 2
\* number of firings of the progress monitor's interval in one run
MaxTicks == 3

(***************************************************************************)
(* Program constants.                                                      *)
(***************************************************************************)
\* part_000:77  const retryDelayMs = 750
retryDelayMs == 750
\* part_000:66  options.timeoutMs ?? 30 * 60_000
defaultTimeoutMs == 1800000
\* part_001:280  waitForAttachmentCompletion(Runtime, 5000, ...)
recheckTimeoutMs == 5000
\* attachments.ts:29  const maxAttempts = 3
maxAttempts == 3
\* attachments.ts:74  await delay(300 * attempt)
backoffMs == 300
\* attachments.ts:346  if (stableIterations >= 2)
stableThreshold == 2
\* sessionRecovery.ts:26  promptText.slice(0, 200)
previewLength == 200

Procs == 1..NumProcs
\* a process id that names no running process
DeadPid == NumProcs + 1

\* the timeoutMs option of a direct caller of acquireBrowserLock: 0 (no
\* deadline) or positive
TimeoutChoices == {0, defaultTimeoutMs}

(***************************************************************************)
(* The lock file.  A file is absent, holds something readExistingLock      *)
(* cannot parse or validate, or holds a payload {pid, createdAt}.  frac    *)
(* marks a pid that is a number but not an integer.  createdAt is written  *)
(* and type-checked but never read again, so a valid payload keeps its pid *)
(* only.                                                                   *)
(***************************************************************************)
NoFile == [kind |-> "absent", pid |-> 0, frac |-> FALSE]
Corrupt == [kind |-> "corrupt", pid |-> 0, frac |-> FALSE]
Payload(pid, frac) == [kind |-> "payload", pid |-> pid, frac |-> frac]
\* the payload process p writes: { pid: process.pid, createdAt: Date.now() }
payload(p) == Payload(p, FALSE)
\* result null of readExistingLock
Null == [kind |-> "null", pid |-> 0, frac |-> FALSE]

\* what the lock path may hold before any modelled process runs
InitialFiles ==
    {NoFile, Corrupt, Payload(DeadPid, FALSE), Payload(0, FALSE), Payload(1, TRUE)}

VARIABLES
    \* ---- environment
    rmDenied,       \* fs.rm on the lock path fails (for the whole behaviour)
    lockFile,       \* content of the lock path
    initFile,       \* content of the lock path before the first step
    contenders,     \* the processes that call acquireBrowserLock
    \* ---- acquireBrowserLock, one call per process
    pc,             \* position of the call
    timeoutMs,      \* options.timeoutMs, while the call runs
    pastDeadline,   \* Date.now() > deadline, while the call runs
    existing,       \* result of readExistingLock, until it has been used
    contended,      \* the call has seen a writeFile fail
    released,       \* the closure's flag
    releaseCalls,   \* calls of the release closure made so far
    \* ---- runBrowserMode, one run per process
    rpc,            \* position of the run
    keepBrowser,    \* config.keepBrowser
    userDataDir,    \* the temporary profile directory of the run
    chrome,         \* the browser process launched by the run
    killCalled,     \* chrome.kill() has been called
    client,         \* the DevTools connection
    connectionClosedUnexpectedly,
    outcome,        \* how the run ends: its result or the error it throws
    \* ---- waitForAttachmentCompletion, one call
    wpc,            \* position of the call
    recoveryOptions,\* the recoveryOptions argument is given
    savedSession,   \* location in the session file of userDataDir, 0 if none
    pastWaitDeadline, \* Date.now() >= deadline
    page,           \* what the probe expression would return now
    lastUrl,        \* the baseline location, 0 while undefined
    valueUrl,       \* value.url of the first probe, while the guard runs
    seen,           \* the last three results of the probe expression
    restarted,      \* a second or third check has failed its test
    \* ---- uploadAttachmentFile, one call
    upc,            \* position of the call
    attempt,        \* the loop counter
    lastError,      \* the lastError variable, "none" while undefined
    outcomes,       \* how each attempt so far has ended
    backoffs,       \* the delays awaited between attempts, in ms
    \* ---- normalizeFilename, one application
    filename,       \* the argument, a sequence of characters
    normalized,     \* the result, once applied is TRUE
    applied,
    \* ---- attachment verification of runBrowserMode, one pass
    vpc,            \* position of the pass
    attachments,    \* basenames of the attachments of the run
    polled,         \* what each poll of verifyAttachmentsVisible has got
    lastSnapshotKey,\* the last snapshot seen, << >> while null
    stableIterations,
    pastVerifyDeadline, \* Date.now() >= deadline
    visibleAttachments, \* result of verifyAttachmentsVisible
    missingFiles,
    extraFiles,
    \* ---- navigateToSavedSession, one call
    npc,            \* position of the call
    navSession,        \* the session argument: url and conversationId
    pastLoadDeadline, \* Date.now() >= deadline of the load wait
    currentUrl,     \* the location read at line 118, << >> before
    navResult,      \* the boolean the call returns
    failure,        \* the step of the call that has thrown, "none" if none
    \* the session state store (sessionRecovery.ts:17-44)
    sessionFile,    \* browser_session.json of the session directory
    lastSave,       \* the arguments of the latest saveSessionState, if any
    saveCount,      \* calls of saveSessionState so far
    loaded,         \* what the latest loadSessionState returned
    \* the try block of one run of runBrowserMode (part_001:101-363)
    bpc,            \* the next step of the try block
    steps,          \* the steps of the try block done so far, in order
    conversationUrl, \* what waitForConversationUrl returned, << >> before
    caught,         \* the message of the error the catch block received
    initialWaitCompleted, \* part_001:192, set once the first readiness wait returned
    thrown,         \* what the catch block threw: kind, message and cause
    \* startThinkingStatusMonitor (part_001:441-486)
    stopThinkingMonitor, \* "null", or "set" once the monitor is started
    includeDiagnostics,  \* options.verbose
    stopped,        \* the monitor's stopped flag; the interval is cleared
    pending,        \* the monitor's in-flight flag
    lastMessage,    \* the last status logged, "none" for null
    ticks,          \* the firings of the interval so far: "sampled" or "skipped"
    inFlight,       \* the samples past the guard that have not finished
    lines,          \* status texts of the progress lines given to the logger so far
    cleared         \* calls of clearInterval on the monitor's interval so far

fileVars == <<lockFile, initFile, contenders>>
callVars == <<pc, timeoutMs, pastDeadline, existing, contended, released, releaseCalls>>
lockVars == <<fileVars, callVars>>
envVars == <<rmDenied>>
runVars == <<rpc, keepBrowser, userDataDir, chrome, killCalled, client,
             connectionClosedUnexpectedly, outcome>>
waitVars == <<wpc, recoveryOptions, savedSession, pastWaitDeadline, page, lastUrl,
              valueUrl, seen, restarted>>
uploadVars == <<upc, attempt, lastError, outcomes, backoffs>>
normVars == <<filename, normalized, applied>>
verifyVars == <<vpc, attachments, polled, lastSnapshotKey, stableIterations,
                pastVerifyDeadline, visibleAttachments, missingFiles, extraFiles>>
checkVars == <<normVars, verifyVars>>
recoverVars == <<npc, navSession, pastLoadDeadline, currentUrl, navResult, failure>>
storeVars == <<sessionFile, lastSave, saveCount, loaded>>
\* the session store and the pieces of one run's body
bodyVars == <<bpc, steps, conversationUrl, caught, thrown, initialWaitCompleted>>
monitorVars == <<stopThinkingMonitor, includeDiagnostics, stopped, pending, lastMessage,
                 ticks, inFlight, lines, cleared>>
restVars == <<storeVars, bodyVars, monitorVars>>
vars == <<envVars, lockVars, runVars, waitVars, uploadVars, checkVars, recoverVars,
          restVars>>
\* everything but restVars
coreVars == <<envVars, lockVars, runVars, waitVars, uploadVars, checkVars, recoverVars>>
\* the page actions, which runBrowserMode's own steps leave alone
actionVars == <<waitVars, uploadVars, checkVars, recoverVars, restVars>>
\* what a step of acquireBrowserLock or of the release closure leaves alone
nonLockVars == <<envVars, runVars, actionVars>>
\* what a step of waitForAttachmentCompletion leaves alone
nonWaitVars == <<envVars, lockVars, runVars, uploadVars, checkVars, recoverVars,
                 restVars>>
\* what a step of uploadAttachmentFile leaves alone
nonUploadVars == <<envVars, lockVars, runVars, waitVars, checkVars, recoverVars,
                   restVars>>
\* what normalizeFilename and the attachment verification leave alone
nonCheckVars == <<envVars, lockVars, runVars, waitVars, uploadVars, recoverVars,
                  restVars>>
\* what a step of navigateToSavedSession leaves alone
nonRecoverVars == <<envVars, lockVars, runVars, waitVars, uploadVars, checkVars,
                    restVars>>

(***************************************************************************)
(* Pure helpers of lock.ts                                                 *)
(***************************************************************************)
\* readExistingLock: null when the file is missing, unreadable or invalid
\* mutant: an unreadable file is read as the record of no process
readExistingLockAsStale(file) ==
    IF file.kind = "absent" THEN Null
    ELSE IF file.kind = "payload" THEN file
    ELSE Payload(0, FALSE)

readExistingLock(file) ==
    IF file.kind = "payload" THEN file ELSE Null

\* process.kill(pid, 0) succeeds: the modelled processes run throughout, and
\* no other pid names a process
processExists(pid) == pid \in Procs

\* mutant: the guard against non-integer and non-positive pids is missing
\* and a failing probe counts as alive
isProcessAliveNoGuard(rec) == TRUE

\* isProcessAlive: non-integer or pid <= 0 is dead; otherwise process.kill(pid, 0)
isProcessAlive(rec) ==
    IF rec.frac \/ rec.pid <= 0
    THEN FALSE
    ELSE processExists(rec.pid)

\* mutant: the deadline test without timeoutMs > 0
TimedOutAlways(p) == pastDeadline[p]

\* timeoutMs > 0 && Date.now() > deadline
TimedOut(p) == timeoutMs[p] > 0 /\ pastDeadline[p]

\* fs.rm(lockPath, {force: true}): removes the file unless the call fails
rmLock == IF rmDenied THEN lockFile ELSE NoFile

\* mutant: the owner test never matches
ownsRecordNever(p, rec) == FALSE

\* line 147: existing && existing.pid === process.pid
ownsRecord(p, rec) == rec # Null /\ ~rec.frac /\ rec.pid = p

\* acquire has returned its release closure to process p
Acquired(p) == pc[p] \in {"holding", "relRead", "relRm", "relDone"}
\* p is inside the retry loop of acquireBrowserLock
Acquiring(p) == pc[p] \in {"write", "read", "check", "rm", "delay"}

(***************************************************************************)
(* Initial state                                                           *)
(***************************************************************************)
LockInit ==
    /\ lockFile \in InitialFiles
    /\ initFile = lockFile
    /\ pc = [p \in Procs |-> "idle"]
    /\ timeoutMs = [p \in Procs |-> 0]
    /\ pastDeadline = [p \in Procs |-> FALSE]
    /\ existing = [p \in Procs |-> Null]
    /\ contended = [p \in Procs |-> FALSE]
    /\ released = [p \in Procs |-> FALSE]
    /\ releaseCalls = [p \in Procs |-> 0]

EnvInit ==
    /\ rmDenied \in BOOLEAN

\* no run of runBrowserMode has started
RunInit ==
    /\ rpc = [p \in Procs |-> "idle"]
    /\ keepBrowser = [p \in Procs |-> FALSE]
    /\ userDataDir = [p \in Procs |-> "none"]
    /\ chrome = [p \in Procs |-> "none"]
    /\ killCalled = [p \in Procs |-> FALSE]
    /\ client = [p \in Procs |-> "null"]
    /\ connectionClosedUnexpectedly = [p \in Procs |-> FALSE]
    /\ outcome = [p \in Procs |-> "none"]

\* normalizeFilename has not been applied
NormalizeIdle ==
    /\ filename = << >>
    /\ normalized = << >>
    /\ applied = FALSE

\* the attachment verification has not started
VerifyIdle ==
    /\ vpc = "idle"
    /\ attachments = << >>
    /\ polled = << >>
    /\ lastSnapshotKey = << >>
    /\ stableIterations = 0
    /\ pastVerifyDeadline = FALSE
    /\ visibleAttachments = << >>
    /\ missingFiles = << >>
    /\ extraFiles = << >>

CheckIdle == NormalizeIdle /\ VerifyIdle

\* navigateToSavedSession has not been called
RecoverIdle ==
    /\ npc = "idle"
    /\ navSession = [url |-> << >>, conversationId |-> << >>]
    /\ pastLoadDeadline = FALSE
    /\ currentUrl = << >>
    /\ navResult = FALSE
    /\ failure = "none"

\* the placeholder of a session record
NoSession ==
    [url |-> << >>, timestamp |-> 0, promptText |-> << >>,
     attachmentPaths |-> [defined |-> FALSE, value |-> << >>],
     conversationId |-> << >>, sessionDir |-> "none"]

\* nothing has been saved or loaded; the session file is absent
StoreIdle ==
    /\ sessionFile = [kind |-> "absent", entries |-> << >>]
    /\ lastSave = [url |-> << >>, promptText |-> << >>,
                   attachmentPaths |-> [defined |-> FALSE, value |-> << >>]]
    /\ saveCount = 0
    /\ loaded = [kind |-> "none", value |-> NoSession]

\* the try block has not been entered
BodyIdle ==
    /\ bpc = "prepare"
    /\ steps = << >>
    /\ conversationUrl = << >>
    /\ caught = << >>
    /\ thrown = [kind |-> "none", message |-> << >>, cause |-> << >>]
    /\ initialWaitCompleted = FALSE

\* no monitor has been started
MonitorIdle ==
    /\ stopThinkingMonitor = "null"
    /\ includeDiagnostics = FALSE
    /\ stopped = FALSE
    /\ pending = FALSE
    /\ lastMessage = "none"
    /\ ticks = << >>
    /\ cleared = 0
    /\ inFlight = << >>
    /\ lines = << >>

RestIdle == StoreIdle /\ BodyIdle /\ MonitorIdle

\* uploadAttachmentFile has not been called
UploadIdle ==
    /\ upc = "idle"
    /\ attempt = 0
    /\ lastError = "none"
    /\ outcomes = << >>
    /\ backoffs = << >>

\* waitForAttachmentCompletion has not been called
WaitIdle ==
    /\ wpc = "idle"
    /\ recoveryOptions = FALSE
    /\ savedSession = 0
    /\ pastWaitDeadline = FALSE
    /\ page = [state |-> "missing", uploading |-> FALSE, url |-> 1]
    /\ lastUrl = 0
    /\ valueUrl = 0
    /\ seen = << >>
    /\ restarted = FALSE

Init ==
    /\ EnvInit
    /\ LockInit
    /\ RunInit
    /\ WaitIdle
    /\ UploadIdle
    /\ RestIdle
    /\ CheckIdle
    /\ RecoverIdle
    /\ contenders \in (SUBSET Procs) \ {{}}

(***************************************************************************)
(* Environment                                                             *)
(***************************************************************************)
\* time passes: the clock moves past the deadline (start + timeoutMs) of a
\* call in progress, and stays past it
DeadlinePasses(p) ==
    /\ Acquiring(p)
    /\ ~pastDeadline[p]
    /\ pastDeadline' = [pastDeadline EXCEPT ![p] = TRUE]
    /\ UNCHANGED <<fileVars, pc, timeoutMs, existing, contended, released,
                   releaseCalls>>
    /\ UNCHANGED nonLockVars

(***************************************************************************)
(* acquireBrowserLock (part_000:61-158)                                    *)
(***************************************************************************)
\* lines 64-78: the call; deadline = Date.now() + timeoutMs lies ahead
StartAcquire(p, t) ==
    /\ p \in contenders
    /\ pc[p] = "idle"
    /\ pc' = [pc EXCEPT ![p] = "write"]
    /\ timeoutMs' = [timeoutMs EXCEPT ![p] = t]
    /\ UNCHANGED <<fileVars, pastDeadline, existing, contended, released, releaseCalls>>

\* mutant: the file is written without the exclusive-create flag
WriteLockOverwrite(p) ==
    /\ pc[p] = "write"
    /\ lockFile' = payload(p)
    /\ pc' = [pc EXCEPT ![p] = "holding"]
    /\ timeoutMs' = [timeoutMs EXCEPT ![p] = 0]
    /\ pastDeadline' = [pastDeadline EXCEPT ![p] = FALSE]
    /\ UNCHANGED <<initFile, contenders, existing, contended, released, releaseCalls>>
    /\ UNCHANGED nonLockVars

\* lines 84-94: fs.writeFile(lockPath, payloadJson, {flag: "wx"})
WriteLock(p) ==
    /\ pc[p] = "write"
    /\ IF lockFile = NoFile
       THEN /\ lockFile' = payload(p)
            /\ pc' = [pc EXCEPT ![p] = "holding"]
            /\ timeoutMs' = [timeoutMs EXCEPT ![p] = 0]
            /\ pastDeadline' = [pastDeadline EXCEPT ![p] = FALSE]
            /\ UNCHANGED contended
       ELSE /\ pc' = [pc EXCEPT ![p] = "read"]
            /\ contended' = [contended EXCEPT ![p] = TRUE]
            /\ UNCHANGED <<lockFile, timeoutMs, pastDeadline>>
    /\ UNCHANGED <<initFile, contenders, existing, released, releaseCalls>>
    /\ UNCHANGED nonLockVars

\* lines 96-101: readExistingLock; a null result goes to the backoff
ReadLock(p) ==
    /\ pc[p] = "read"
    /\ existing' = [existing EXCEPT ![p] = readExistingLock(lockFile)]
    /\ pc' = [pc EXCEPT ![p] =
                IF readExistingLock(lockFile) = Null THEN "delay" ELSE "check"]
    /\ UNCHANGED <<fileVars, timeoutMs, pastDeadline, contended, released, releaseCalls>>
    /\ UNCHANGED nonLockVars

\* lines 104, 120-135: liveness probe of the recorded owner; for a live
\* owner the deadline test.  (The waiting notice of lines 120-126 only
\* writes to the logger.)  existing goes out of scope with the iteration.
CheckOwner(p) ==
    /\ pc[p] = "check"
    /\ existing' = [existing EXCEPT ![p] = Null]
    /\ IF isProcessAlive(existing[p]) /\ TimedOut(p)
       THEN /\ pc' = [pc EXCEPT ![p] = "timedout"]
            /\ timeoutMs' = [timeoutMs EXCEPT ![p] = 0]
            /\ pastDeadline' = [pastDeadline EXCEPT ![p] = FALSE]
       ELSE /\ pc' = [pc EXCEPT ![p] =
                      IF isProcessAlive(existing[p]) THEN "delay" ELSE "rm"]
            /\ UNCHANGED <<timeoutMs, pastDeadline>>
    /\ UNCHANGED <<fileVars, contended, released, releaseCalls>>
    /\ UNCHANGED nonLockVars

\* lines 105-117: fs.rm of the stale record, failure swallowed, then backoff
RemoveStale(p) ==
    /\ pc[p] = "rm"
    /\ lockFile' = rmLock
    /\ pc' = [pc EXCEPT ![p] = "delay"]
    /\ UNCHANGED <<initFile, contenders, timeoutMs, pastDeadline, existing, contended,
                   released, releaseCalls>>
    /\ UNCHANGED nonLockVars

\* lines 99, 116, 135: await delay(retryDelayMs), then the next iteration
RetryDelay(p) ==
    /\ pc[p] = "delay"
    /\ pc' = [pc EXCEPT ![p] = "write"]
    /\ UNCHANGED <<fileVars, timeoutMs, pastDeadline, existing, contended, released,
                   releaseCalls>>
    /\ UNCHANGED nonLockVars

(***************************************************************************)
(* The release closure (part_000:139-157)                                  *)
(***************************************************************************)
\* mutant: the closure without its released flag
releaseNoFlag(p) ==
    /\ Acquired(p)
    /\ releaseCalls[p] < MaxReleaseCalls
    /\ releaseCalls' = [releaseCalls EXCEPT ![p] = @ + 1]
    /\ released' = [released EXCEPT ![p] = TRUE]
    /\ pc' = [pc EXCEPT ![p] = "relRead"]
    /\ UNCHANGED <<fileVars, timeoutMs, pastDeadline, existing, contended>>

\* lines 140-144: a call of the closure; a second call returns at once
release(p) ==
    /\ Acquired(p)
    /\ releaseCalls[p] < MaxReleaseCalls
    /\ releaseCalls' = [releaseCalls EXCEPT ![p] = @ + 1]
    /\ IF released[p]
       THEN UNCHANGED <<released, pc>>
       ELSE /\ released' = [released EXCEPT ![p] = TRUE]
            /\ pc' = [pc EXCEPT ![p] = "relRead"]
    /\ UNCHANGED <<fileVars, timeoutMs, pastDeadline, existing, contended>>

\* lines 146-147: readExistingLock inside the closure and the owner test
ReleaseRead(p) ==
    /\ pc[p] = "relRead"
    /\ pc' = [pc EXCEPT ![p] =
                IF ownsRecord(p, readExistingLock(lockFile)) THEN "relRm" ELSE "relDone"]
    /\ UNCHANGED <<fileVars, timeoutMs, pastDeadline, existing, contended, released,
                   releaseCalls>>
    /\ UNCHANGED nonLockVars

\* line 148: fs.rm of the own record, failure swallowed (lines 153-156)
ReleaseRm(p) ==
    /\ pc[p] = "relRm"
    /\ lockFile' = rmLock
    /\ pc' = [pc EXCEPT ![p] = "relDone"]
    /\ UNCHANGED <<initFile, contenders, timeoutMs, pastDeadline, existing, contended,
                   released, releaseCalls>>
    /\ UNCHANGED nonLockVars

(***************************************************************************)
(* Processes that call acquireBrowserLock and its release closure directly *)
(***************************************************************************)
\* a step of a call of acquireBrowserLock or of the release closure
LockStep(p) ==
    \/ WriteLock(p)
    \/ ReadLock(p)
    \/ CheckOwner(p)
    \/ RemoveStale(p)
    \/ RetryDelay(p)
    \/ ReleaseRead(p)
    \/ ReleaseRm(p)

\* a process calls acquireBrowserLock({ lockPath, timeoutMs })
CallAcquire(p, t) ==
    /\ StartAcquire(p, t)
    /\ UNCHANGED nonLockVars

\* a process calls the release closure it was given
CallRelease(p) ==
    /\ release(p)
    /\ UNCHANGED nonLockVars

Next ==
    \/ \E p \in Procs : DeadlinePasses(p)
    \/ \E p \in Procs, t \in TimeoutChoices : CallAcquire(p, t)
    \/ \E p \in Procs : WriteLock(p)
    \/ \E p \in Procs : ReadLock(p)
    \/ \E p \in Procs : CheckOwner(p)
    \/ \E p \in Procs : RemoveStale(p)
    \/ \E p \in Procs : RetryDelay(p)
    \/ \E p \in Procs : ReleaseRead(p)
    \/ \E p \in Procs : ReleaseRm(p)
    \/ \E p \in Procs : CallRelease(p)

Spec == Init /\ [][Next]_vars

\* Every await of acquireBrowserLock and of the release closure resolves:
\* a call that can take its next step eventually takes it.  Calls of
\* acquire and of release are the caller's choice and are not forced.
LockFairness == \A p \in Procs : WF_vars(LockStep(p))

\* the lock with at most two of the processes contending for it
PairInit == Init /\ Cardinality(contenders) <= 2

LiveSpec == PairInit /\ [][Next]_vars /\ LockFairness

(***************************************************************************)
(* runBrowserMode (part_001:47-395)                                        *)
(***************************************************************************)
\* the awaited steps of the try block after the connection is open, lines
\* 107-325: navigation (138/151), upload (184-283), submission (146/292),
\* response wait (147/301)
BodyPhases == {"navigate", "upload", "submit", "respond"}

\* the run has returned to its caller or thrown
Ended(p) == rpc[p] \in {"returned", "threw"}
\* launchChrome has returned a browser process to the run
Launched(p) == chrome[p] # "none"

\* lines 73-77: mkdtemp of the profile directory, then the call of
\* acquireBrowserLock({ logger }) with the default timeout
RunStart(p, keep) ==
    /\ rpc[p] = "idle"
    /\ rpc' = [rpc EXCEPT ![p] = "acquire"]
    /\ keepBrowser' = [keepBrowser EXCEPT ![p] = keep]
    /\ userDataDir' = [userDataDir EXCEPT ![p] = "exists"]
    /\ StartAcquire(p, defaultTimeoutMs)
    /\ UNCHANGED <<actionVars, envVars, chrome, killCalled, client, connectionClosedUnexpectedly,
                   outcome>>

\* line 77: acquireBrowserLock throws its timeout error, which leaves
\* runBrowserMode (the call is outside every try block)
RunLockTimeout(p) ==
    /\ rpc[p] = "acquire"
    /\ pc[p] = "timedout"
    /\ rpc' = [rpc EXCEPT ![p] = "threw"]
    /\ outcome' = [outcome EXCEPT ![p] = "lockTimeout"]
    /\ UNCHANGED <<actionVars, envVars, lockVars, keepBrowser, userDataDir, chrome, killCalled,
                   client, connectionClosedUnexpectedly>>

\* mutant: the acquire of line 77 is not awaited before the launch
RunLaunchNoAwait(p, ok) ==
    /\ rpc[p] = "acquire"
    /\ IF ok
       THEN /\ chrome' = [chrome EXCEPT ![p] = "running"]
            /\ rpc' = [rpc EXCEPT ![p] = "connect"]
            /\ UNCHANGED outcome
       ELSE /\ rpc' = [rpc EXCEPT ![p] = "threw"]
            /\ outcome' = [outcome EXCEPT ![p] = "launchError"]
            /\ UNCHANGED chrome
    /\ UNCHANGED <<actionVars, envVars, lockVars, keepBrowser, userDataDir, killCalled, client,
                   connectionClosedUnexpectedly>>

\* lines 79-90: launchChrome, outside every try block; a failure of
\* registerTerminationHooks is swallowed
RunLaunch(p, ok) ==
    /\ rpc[p] = "acquire"
    /\ pc[p] = "holding"
    /\ IF ok
       THEN /\ chrome' = [chrome EXCEPT ![p] = "running"]
            /\ rpc' = [rpc EXCEPT ![p] = "connect"]
            /\ UNCHANGED outcome
       ELSE /\ rpc' = [rpc EXCEPT ![p] = "threw"]
            /\ outcome' = [outcome EXCEPT ![p] = "launchError"]
            /\ UNCHANGED chrome
    /\ UNCHANGED <<actionVars, envVars, lockVars, keepBrowser, userDataDir, killCalled, client,
                   connectionClosedUnexpectedly>>

\* line 102: connectToChrome succeeds
RunConnect(p) ==
    /\ rpc[p] = "connect"
    /\ rpc' = [rpc EXCEPT ![p] = "body"]
    /\ client' = [client EXCEPT ![p] = "open"]
    /\ UNCHANGED <<actionVars, envVars, lockVars, keepBrowser, userDataDir, chrome, killCalled,
                   connectionClosedUnexpectedly, outcome>>

\* lines 107-341: every awaited step of the try block succeeds and the
\* result is returned through the finally block
RunBodyOk(p) ==
    /\ rpc[p] = "body"
    /\ rpc' = [rpc EXCEPT ![p] = "finally"]
    /\ outcome' = [outcome EXCEPT ![p] = "result"]
    /\ UNCHANGED <<actionVars, envVars, lockVars, keepBrowser, userDataDir, chrome, killCalled,
                   client, connectionClosedUnexpectedly>>

\* lines 342-363: the catch block; closure says that isWebSocketClosureError
\* holds of the error
catch(p, closure) ==
    LET socketClosed == connectionClosedUnexpectedly[p] \/ closure
    IN /\ connectionClosedUnexpectedly' =
              [connectionClosedUnexpectedly EXCEPT ![p] = @ \/ socketClosed]
       /\ outcome' = [outcome EXCEPT ![p] =
              IF socketClosed THEN "windowClosedError" ELSE "error"]
       /\ rpc' = [rpc EXCEPT ![p] = "finally"]

\* line 102: connectToChrome throws
RunConnectThrows(p, closure) ==
    /\ rpc[p] = "connect"
    /\ catch(p, closure)
    /\ UNCHANGED <<actionVars, envVars, lockVars, keepBrowser, userDataDir, chrome, killCalled,
                   client>>

\* lines 107-325: one of the awaited steps after the connection throws
RunBodyThrows(p, phase, closure) ==
    /\ rpc[p] = "body"
    /\ phase \in BodyPhases
    /\ catch(p, closure)
    /\ UNCHANGED <<actionVars, envVars, lockVars, keepBrowser, userDataDir, chrome, killCalled,
                   client>>

\* lines 103-106: the connection emits "disconnect"
Disconnect(p) ==
    /\ client[p] = "open"
    /\ ~Ended(p)
    /\ ~connectionClosedUnexpectedly[p]
    /\ connectionClosedUnexpectedly' = [connectionClosedUnexpectedly EXCEPT ![p] = TRUE]
    /\ UNCHANGED <<actionVars, envVars, lockVars, rpc, keepBrowser, userDataDir, chrome, killCalled,
                   client, outcome>>

\* the browser process exits by itself (its window is closed)
ChromeExits(p) ==
    /\ chrome[p] = "running"
    /\ ~Ended(p)
    /\ chrome' = [chrome EXCEPT ![p] = "exited"]
    /\ UNCHANGED <<actionVars, envVars, lockVars, rpc, keepBrowser, userDataDir, killCalled, client,
                   connectionClosedUnexpectedly, outcome>>

\* lines 365-369: the finally block calls the release closure
RunRelease(p) ==
    /\ rpc[p] = "finally"
    /\ rpc' = [rpc EXCEPT ![p] = "releasing"]
    /\ release(p)
    /\ UNCHANGED <<actionVars, envVars, keepBrowser, userDataDir, chrome, killCalled, client,
                   connectionClosedUnexpectedly, outcome>>

\* mutant: the browser is never killed
AfterCloseNoKill(p) ==
    IF keepBrowser[p] THEN "end" ELSE "rmdir"

\* lines 378-386: where the finally block goes after line 377 has returned
AfterClose(p) ==
    IF keepBrowser[p] THEN "end"
    ELSE IF ~connectionClosedUnexpectedly[p] THEN "kill"
    ELSE "rmdir"

\* lines 370-376: the release closure has returned; client.close() unless
\* the connection is known to have dropped, failures ignored
RunClose(p, ok) ==
    /\ rpc[p] = "releasing"
    /\ pc[p] = "relDone"
    /\ client' = [client EXCEPT ![p] =
                    IF ~connectionClosedUnexpectedly[p] /\ @ = "open" /\ ok
                    THEN "closed" ELSE @]
    /\ rpc' = [rpc EXCEPT ![p] = "hooks"]
    /\ UNCHANGED <<actionVars, envVars, lockVars, keepBrowser, userDataDir, chrome, killCalled,
                   connectionClosedUnexpectedly, outcome>>

\* line 377: removeTerminationHooks?.() is called outside every try block;
\* what it throws leaves the finally block and replaces the result or the
\* error of the run
RunRemoveHooks(p, ok) ==
    /\ rpc[p] = "hooks"
    /\ IF ok
       THEN /\ rpc' = [rpc EXCEPT ![p] = AfterClose(p)]
            /\ UNCHANGED outcome
       ELSE /\ rpc' = [rpc EXCEPT ![p] = "threw"]
            /\ outcome' = [outcome EXCEPT ![p] = "hookError"]
    /\ UNCHANGED <<actionVars, envVars, lockVars, keepBrowser, userDataDir, chrome, killCalled,
                   client, connectionClosedUnexpectedly>>

\* lines 379-385: chrome.kill(), failures ignored
RunKill(p, ok) ==
    /\ rpc[p] = "kill"
    /\ killCalled' = [killCalled EXCEPT ![p] = TRUE]
    /\ chrome' = [chrome EXCEPT ![p] = IF ok THEN "exited" ELSE @]
    /\ rpc' = [rpc EXCEPT ![p] = "rmdir"]
    /\ UNCHANGED <<actionVars, envVars, lockVars, keepBrowser, userDataDir, client,
                   connectionClosedUnexpectedly, outcome>>

\* line 386: rm of the profile directory, failures ignored
RunRmDir(p, ok) ==
    /\ rpc[p] = "rmdir"
    /\ userDataDir' = [userDataDir EXCEPT ![p] = IF ok THEN "removed" ELSE @]
    /\ rpc' = [rpc EXCEPT ![p] = "end"]
    /\ UNCHANGED <<actionVars, envVars, lockVars, keepBrowser, chrome, killCalled, client,
                   connectionClosedUnexpectedly, outcome>>

\* line 394: the finally block is left; the run returns its result or
\* throws its error
RunEnd(p) ==
    /\ rpc[p] = "end"
    /\ rpc' = [rpc EXCEPT ![p] = IF outcome[p] = "result" THEN "returned" ELSE "threw"]
    /\ UNCHANGED <<actionVars, envVars, lockVars, keepBrowser, userDataDir, chrome, killCalled,
                   client, connectionClosedUnexpectedly, outcome>>

RunNext ==
    \/ \E p \in Procs : DeadlinePasses(p)
    \/ \E p \in Procs : WriteLock(p)
    \/ \E p \in Procs : ReadLock(p)
    \/ \E p \in Procs : CheckOwner(p)
    \/ \E p \in Procs : RemoveStale(p)
    \/ \E p \in Procs : RetryDelay(p)
    \/ \E p \in Procs : ReleaseRead(p)
    \/ \E p \in Procs : ReleaseRm(p)
    \/ \E p \in Procs, keep \in BOOLEAN : RunStart(p, keep)
    \/ \E p \in Procs : RunLockTimeout(p)
    \/ \E p \in Procs, ok \in BOOLEAN : RunLaunch(p, ok)
    \/ \E p \in Procs : RunConnect(p)
    \/ \E p \in Procs, closure \in BOOLEAN : RunConnectThrows(p, closure)
    \/ \E p \in Procs : RunBodyOk(p)
    \/ \E p \in Procs, phase \in BodyPhases, closure \in BOOLEAN :
          RunBodyThrows(p, phase, closure)
    \/ \E p \in Procs : Disconnect(p)
    \/ \E p \in Procs : ChromeExits(p)
    \/ \E p \in Procs : RunRelease(p)
    \/ \E p \in Procs, ok \in BOOLEAN : RunClose(p, ok)
    \/ \E p \in Procs, ok \in BOOLEAN : RunRemoveHooks(p, ok)
    \/ \E p \in Procs, ok \in BOOLEAN : RunKill(p, ok)
    \/ \E p \in Procs, ok \in BOOLEAN : RunRmDir(p, ok)
    \/ \E p \in Procs : RunEnd(p)

\* every process runs runBrowserMode; the lock path is absent or holds the
\* record of a dead process
RunSpecInit ==
    /\ Init
    /\ contenders = Procs
    /\ lockFile \in {NoFile, Payload(DeadPid, FALSE)}

RunSpec == RunSpecInit /\ [][RunNext]_vars

\* one process runs runBrowserMode; the lock path is absent, unreadable,
\* holds the record of a dead process, or holds the record of another live
\* process that keeps the lock throughout
OneRunInit ==
    /\ EnvInit
    /\ RunInit
    /\ WaitIdle
    /\ UploadIdle
    /\ RestIdle
    /\ CheckIdle
    /\ RecoverIdle
    /\ LockInit
    /\ contenders = {1}

OneRunHeld ==
    /\ EnvInit
    /\ RunInit
    /\ WaitIdle
    /\ UploadIdle
    /\ RestIdle
    /\ CheckIdle
    /\ RecoverIdle
    /\ contenders = {1}
    /\ lockFile \in {payload(q) : q \in Procs \ {1}}
    /\ initFile = lockFile
    /\ pc = [p \in Procs |-> IF payload(p) = lockFile THEN "holding" ELSE "idle"]
    /\ timeoutMs = [p \in Procs |-> 0]
    /\ pastDeadline = [p \in Procs |-> FALSE]
    /\ existing = [p \in Procs |-> Null]
    /\ contended = [p \in Procs |-> FALSE]
    /\ released = [p \in Procs |-> FALSE]
    /\ releaseCalls = [p \in Procs |-> 0]

OneRunSpec == (OneRunInit \/ OneRunHeld) /\ [][RunNext]_vars

(***************************************************************************)
(* waitForAttachmentCompletion (attachments.ts:93-216)                     *)
(***************************************************************************)
Urls == 1..NumUrls
\* the timeoutMs argument: 0, or the budget of the orchestrator's re-check
WaitTimeoutChoices == {0, recheckTimeoutMs}

\* lines 104-119: what the probe expression returns; without a send button
\* the state is missing and uploading is false
PageStates ==
    {[state |-> "missing", uploading |-> FALSE, url |-> u] : u \in Urls}
    \cup [state : {"disabled", "ready"}, uploading : BOOLEAN, url : Urls]
\* Runtime.evaluate returned a result without a value
Undefined == [state |-> "undefined", uploading |-> FALSE, url |-> 0]
\* how a Runtime.evaluate call ends
EvalOutcomes == {"value", "undefined", "throws"}
\* the value the probe expression yields for the outcome of its evaluation
probe(res) == IF res = "value" THEN page ELSE Undefined
\* line 164: value && value.state === "ready" && !value.uploading
ready(v) == v # Undefined /\ v.state = "ready" /\ ~v.uploading

\* the window of the last three probe results after one more; of a result
\* it keeps whether it was ready and idle, and its location
observe(v) ==
    LET o == [ready |-> ready(v), url |-> v.url]
    IN IF Len(seen) < 3 THEN Append(seen, o) ELSE Append(Tail(seen), o)

\* mutant: the confirmation does not compare the location with the baseline
steadyAnyUrl(v, base) == ready(v)

\* lines 175-180, 191-196: the test of the second and of the third check
steady(v, base) == ready(v) /\ v.url = base

\* the call has returned or thrown
WaitEnded == wpc \in {"returned", "threw"}
\* the call is inside the navigation guard of lines 129-158
InGuard == wpc \in {"load", "recover", "settle2000", "geturl", "settle1000"}

\* the call is about to evaluate an expression in the page
AboutToEvaluate == wpc \in {"probe", "geturl", "confirm", "final"}

\* the page changes by itself: the upload proceeds, the composer re-renders,
\* the document reloads or navigates.  The wait sees the page only through
\* its evaluations, so a change at any moment since the previous evaluation
\* is taken when the next evaluation is due.
PageChanges(new) ==
    /\ AboutToEvaluate
    /\ new \in PageStates
    /\ new # page
    /\ page' = new
    /\ UNCHANGED <<wpc, recoveryOptions, savedSession, pastWaitDeadline, lastUrl,
                   valueUrl, seen>>
    /\ UNCHANGED <<nonWaitVars, restarted>>

\* time passes: the clock reaches the deadline of the call.  The wait reads
\* the clock only in the test of its loop (line 121), so the passing of the
\* deadline at any moment of an iteration is taken when that test is due.
WaitDeadlinePasses ==
    /\ wpc = "loop"
    /\ ~pastWaitDeadline
    /\ pastWaitDeadline' = TRUE
    /\ UNCHANGED <<wpc, recoveryOptions, savedSession, page, lastUrl, valueUrl, seen>>
    /\ UNCHANGED <<nonWaitVars, restarted>>

\* lines 93-103: the call; deadline = Date.now() + timeoutMs.  The session
\* file of userDataDir is read only with recoveryOptions.
WaitStart(t, rec, session, first) ==
    /\ wpc = "idle"
    /\ ~rec => session = 0
    /\ wpc' = "loop"
    /\ recoveryOptions' = rec
    /\ savedSession' = session
    /\ pastWaitDeadline' = (t <= 0)
    /\ page' = first
    /\ UNCHANGED <<lastUrl, valueUrl, seen>>
    /\ UNCHANGED <<nonWaitVars, restarted>>

\* line 121: while (Date.now() < deadline)
WaitLoop ==
    /\ wpc = "loop"
    /\ wpc' = IF pastWaitDeadline THEN "capture" ELSE "probe"
    /\ UNCHANGED <<recoveryOptions, savedSession, pastWaitDeadline, page, lastUrl,
                   valueUrl, seen>>
    /\ UNCHANGED <<nonWaitVars, restarted>>

\* lines 123-164: the first evaluation of the probe expression, the test of
\* the navigation guard, the first baseline and the first check
WaitProbe(res) ==
    /\ wpc = "probe"
    /\ res \in EvalOutcomes
    /\ IF res = "throws"
       THEN /\ wpc' = "catch"
            /\ UNCHANGED <<lastUrl, valueUrl, seen>>
       ELSE LET value == probe(res)
            IN /\ seen' = observe(value)
               /\ IF lastUrl # 0 /\ value.url # 0 /\ lastUrl # value.url
                  THEN /\ valueUrl' = value.url
                       /\ wpc' = IF recoveryOptions THEN "load" ELSE "settle1000"
                       /\ UNCHANGED lastUrl
                  ELSE /\ lastUrl' = IF lastUrl = 0 THEN value.url ELSE lastUrl
                       /\ wpc' = IF ready(value) THEN "delay500" ELSE "delay250"
                       /\ UNCHANGED valueUrl
    /\ UNCHANGED <<recoveryOptions, savedSession, pastWaitDeadline, page>>
    /\ UNCHANGED <<nonWaitVars, restarted>>

\* lines 134-135: loadSessionState (never throws) and the test of session?.url
WaitLoadSession ==
    /\ wpc = "load"
    /\ wpc' = IF savedSession # 0 THEN "recover" ELSE "settle1000"
    /\ UNCHANGED <<recoveryOptions, savedSession, pastWaitDeadline, page, lastUrl,
                   valueUrl, seen>>
    /\ UNCHANGED <<nonWaitVars, restarted>>

\* lines 137-142: navigateToSavedSession (never throws).  It reports success
\* with the page at the saved location; it reports failure with the page
\* wherever the navigation left it.
WaitRecover(recovered, new) ==
    /\ wpc = "recover"
    /\ new \in PageStates
    /\ recovered => new.url = savedSession
    /\ page' = new
    /\ wpc' = IF recovered THEN "settle2000" ELSE "settle1000"
    /\ UNCHANGED <<recoveryOptions, savedSession, pastWaitDeadline, lastUrl, valueUrl,
                   seen>>
    /\ UNCHANGED <<nonWaitVars, restarted>>

\* line 146: await delay(2000) after a successful recovery
WaitSettleRecovered ==
    /\ wpc = "settle2000"
    /\ wpc' = "geturl"
    /\ UNCHANGED <<recoveryOptions, savedSession, pastWaitDeadline, page, lastUrl,
                   valueUrl, seen>>
    /\ UNCHANGED <<nonWaitVars, restarted>>

\* lines 147-148: lastUrl = await getCurrentConversationUrl(Runtime); continue.
\* The evaluation may throw, which leaves the assignment undone and lands in
\* the catch block of line 202.
WaitGetUrl(ok) ==
    /\ wpc = "geturl"
    /\ IF ok
       THEN /\ lastUrl' = page.url
            /\ wpc' = "loop"
       ELSE /\ wpc' = "catch"
            /\ UNCHANGED lastUrl
    /\ valueUrl' = 0
    /\ UNCHANGED <<recoveryOptions, savedSession, pastWaitDeadline, page, seen>>
    /\ UNCHANGED <<nonWaitVars, restarted>>

\* lines 155-157: await delay(1000); lastUrl = value.url; continue
WaitSettle ==
    /\ wpc = "settle1000"
    /\ lastUrl' = valueUrl
    /\ valueUrl' = 0
    /\ wpc' = "loop"
    /\ UNCHANGED <<recoveryOptions, savedSession, pastWaitDeadline, page, seen>>
    /\ UNCHANGED <<nonWaitVars, restarted>>

\* line 166: await delay(500) before the second check
WaitDelayConfirm ==
    /\ wpc = "delay500"
    /\ wpc' = "confirm"
    /\ UNCHANGED <<recoveryOptions, savedSession, pastWaitDeadline, page, lastUrl,
                   valueUrl, seen>>
    /\ UNCHANGED <<nonWaitVars, restarted>>

\* lines 167-180: the second evaluation and its test
WaitConfirm(res) ==
    /\ wpc = "confirm"
    /\ res \in EvalOutcomes
    /\ IF res = "throws"
       THEN /\ wpc' = "catch"
            /\ UNCHANGED <<seen, restarted>>
       ELSE /\ seen' = observe(probe(res))
            /\ wpc' = IF steady(probe(res), lastUrl) THEN "delay1000" ELSE "delay250"
            /\ restarted' = (restarted \/ ~steady(probe(res), lastUrl))
    /\ UNCHANGED <<recoveryOptions, savedSession, pastWaitDeadline, page, lastUrl,
                   valueUrl>>
    /\ UNCHANGED nonWaitVars

\* line 182: await delay(1000) before the third check
WaitDelayFinal ==
    /\ wpc = "delay1000"
    /\ wpc' = "final"
    /\ UNCHANGED <<recoveryOptions, savedSession, pastWaitDeadline, page, lastUrl,
                   valueUrl, seen>>
    /\ UNCHANGED <<nonWaitVars, restarted>>

\* lines 183-199: the third evaluation, its test and the return
WaitFinal(res) ==
    /\ wpc = "final"
    /\ res \in EvalOutcomes
    /\ IF res = "throws"
       THEN /\ wpc' = "catch"
            /\ UNCHANGED <<seen, restarted>>
       ELSE /\ seen' = observe(probe(res))
            /\ wpc' = IF steady(probe(res), lastUrl) THEN "returned" ELSE "delay250"
            /\ restarted' = (restarted \/ ~steady(probe(res), lastUrl))
    /\ UNCHANGED <<recoveryOptions, savedSession, pastWaitDeadline, page, lastUrl,
                   valueUrl>>
    /\ UNCHANGED nonWaitVars

\* mutant: the catch block throws the error on
WaitCatchRethrows ==
    /\ wpc = "catch"
    /\ wpc' = "threw"
    /\ UNCHANGED <<recoveryOptions, savedSession, pastWaitDeadline, page, lastUrl,
                   valueUrl, seen>>
    /\ UNCHANGED <<nonWaitVars, restarted>>

\* lines 202-208: the catch block logs the error and awaits delay(500)
WaitCatch ==
    /\ wpc = "catch"
    /\ wpc' = "delay250"
    /\ UNCHANGED <<recoveryOptions, savedSession, pastWaitDeadline, page, lastUrl,
                   valueUrl, seen>>
    /\ UNCHANGED <<nonWaitVars, restarted>>

\* line 210: await delay(250) at the end of an iteration
WaitPoll ==
    /\ wpc = "delay250"
    /\ wpc' = "loop"
    /\ UNCHANGED <<recoveryOptions, savedSession, pastWaitDeadline, page, lastUrl,
                   valueUrl, seen>>
    /\ UNCHANGED <<nonWaitVars, restarted>>

\* mutant: the wait returns when its deadline has passed
WaitTimeoutReturns ==
    /\ wpc = "capture"
    /\ wpc' = "returned"
    /\ UNCHANGED <<recoveryOptions, savedSession, pastWaitDeadline, page, lastUrl,
                   valueUrl, seen>>
    /\ UNCHANGED <<nonWaitVars, restarted>>

\* lines 213-215: the timeout is logged, logDomFailure captures the document
\* and the timeout error is thrown
WaitTimeout ==
    /\ wpc = "capture"
    /\ wpc' = "threw"
    /\ UNCHANGED <<recoveryOptions, savedSession, pastWaitDeadline, page, lastUrl,
                   valueUrl, seen>>
    /\ UNCHANGED <<nonWaitVars, restarted>>

WaitNext ==
    \/ \E new \in PageStates : PageChanges(new)
    \/ WaitDeadlinePasses
    \/ \E t \in WaitTimeoutChoices, rec \in BOOLEAN, session \in {0} \cup Urls,
          first \in PageStates : WaitStart(t, rec, session, first)
    \/ WaitLoop
    \/ \E res \in EvalOutcomes : WaitProbe(res)
    \/ WaitLoadSession
    \/ \E recovered \in BOOLEAN, new \in PageStates : WaitRecover(recovered, new)
    \/ WaitSettleRecovered
    \/ \E ok \in BOOLEAN : WaitGetUrl(ok)
    \/ WaitSettle
    \/ WaitDelayConfirm
    \/ \E res \in EvalOutcomes : WaitConfirm(res)
    \/ WaitDelayFinal
    \/ \E res \in EvalOutcomes : WaitFinal(res)
    \/ WaitCatch
    \/ WaitPoll
    \/ WaitTimeout

\* one call of waitForAttachmentCompletion; no lock is contended and no run
\* of runBrowserMode is modelled around it
WaitInit ==
    /\ rmDenied = FALSE
    /\ LockInit
    /\ lockFile = NoFile
    /\ contenders = Procs
    /\ RunInit
    /\ WaitIdle
    /\ UploadIdle
    /\ RestIdle
    /\ CheckIdle
    /\ RecoverIdle

WaitSpec == WaitInit /\ [][WaitNext]_vars

(***************************************************************************)
(* uploadAttachmentFile (attachments.ts:18-91)                             *)
(***************************************************************************)
\* how an attempt can end: the file input is not located, the assignment or
\* the confirmation throws "Could not find node with given id" (stale) or
\* another error (channel), the registration is not confirmed within the
\* poll (mismatch), or it is confirmed (ok)
AttemptOutcomes == {"locate", "stale", "channel", "mismatch", "ok"}

\* mutant: every error of the assignment or the confirmation is retried
retryableAny(err) == attempt < maxAttempts

\* line 61: message.includes("could not find node with given id") &&
\* attempt < maxAttempts
retryable(err) == err = "stale" /\ attempt < maxAttempts

\* mutant: the backoff and a further attempt follow every failed attempt
afterAttemptAlways == "backoff"

\* lines 77-79 and the loop header: where an attempt that neither broke out
\* of the loop nor threw goes next
afterAttempt == IF attempt < maxAttempts THEN "backoff" ELSE "capture"

\* lines 23-33: the call; without the DOM domain it throws at once
UploadStart(dom) ==
    /\ upc = "idle"
    /\ IF dom
       THEN /\ upc' = "locate"
            /\ attempt' = 1
            /\ UNCHANGED lastError
       ELSE /\ upc' = "threw"
            /\ lastError' = "domUnavailable"
            /\ UNCHANGED attempt
    /\ UNCHANGED <<outcomes, backoffs>>
    /\ UNCHANGED nonUploadVars

\* lines 34-45: getDocument and querySelector over the two selectors, which
\* are outside the try block, and the test of targetNodeId
UploadLocate(res) ==
    /\ upc = "locate"
    /\ res \in {"found", "none", "throws"}
    /\ IF res = "found"
       THEN /\ upc' = "assign"
            /\ UNCHANGED <<lastError, outcomes>>
       ELSE IF res = "none"
       THEN /\ lastError' = "locate"
            /\ outcomes' = Append(outcomes, "locate")
            /\ upc' = afterAttempt
       ELSE /\ upc' = "threw"
            /\ lastError' = "channel"
            /\ outcomes' = Append(outcomes, "channel")
    /\ UNCHANGED <<attempt, backoffs>>
    /\ UNCHANGED nonUploadVars

\* lines 56-71: the catch block around the assignment and the confirmation
uploadCatch(err) ==
    /\ lastError' = err
    /\ outcomes' = Append(outcomes, err)
    /\ upc' = IF retryable(err) THEN afterAttempt ELSE "capture"

\* line 47: dom.setFileInputFiles
UploadAssign(res) ==
    /\ upc = "assign"
    /\ res \in {"ok", "stale", "channel"}
    /\ IF res = "ok"
       THEN /\ upc' = "confirm"
            /\ UNCHANGED <<lastError, outcomes>>
       ELSE uploadCatch(res)
    /\ UNCHANGED <<attempt, backoffs>>
    /\ UNCHANGED nonUploadVars

\* lines 48-55: waitForAttachmentSelection(runtime, expectedName, 10_000)
\* returns true, returns false or throws
UploadConfirm(res) ==
    /\ upc = "confirm"
    /\ res \in {"ok", "mismatch", "stale", "channel"}
    /\ IF res = "ok"
       THEN /\ lastError' = "none"
            /\ outcomes' = Append(outcomes, "ok")
            /\ upc' = "settle"
       ELSE IF res = "mismatch"
       THEN /\ lastError' = "mismatch"
            /\ outcomes' = Append(outcomes, "mismatch")
            /\ upc' = afterAttempt
       ELSE uploadCatch(res)
    /\ UNCHANGED <<attempt, backoffs>>
    /\ UNCHANGED nonUploadVars

\* lines 77-79: await delay(300 * attempt), then the next attempt
UploadBackoff ==
    /\ upc = "backoff"
    /\ backoffs' = Append(backoffs, backoffMs * attempt)
    /\ attempt' = attempt + 1
    /\ upc' = "locate"
    /\ UNCHANGED <<lastError, outcomes>>
    /\ UNCHANGED nonUploadVars

\* lines 82-88: logDomFailure, then lastError is thrown
UploadThrow ==
    /\ upc = "capture"
    /\ upc' = "threw"
    /\ UNCHANGED <<attempt, lastError, outcomes, backoffs>>
    /\ UNCHANGED nonUploadVars

\* lines 90-93: await delay(2000), the "Attachment queued" line, the return
UploadSettle ==
    /\ upc = "settle"
    /\ upc' = "returned"
    /\ UNCHANGED <<attempt, lastError, outcomes, backoffs>>
    /\ UNCHANGED nonUploadVars

UploadNext ==
    \/ \E dom \in BOOLEAN : UploadStart(dom)
    \/ \E res \in {"found", "none", "throws"} : UploadLocate(res)
    \/ \E res \in {"ok", "stale", "channel"} : UploadAssign(res)
    \/ \E res \in {"ok", "mismatch", "stale", "channel"} : UploadConfirm(res)
    \/ UploadBackoff
    \/ UploadThrow
    \/ UploadSettle

\* one call of uploadAttachmentFile; no lock is contended, no run of
\* runBrowserMode and no completion wait is modelled around it
UploadInit ==
    /\ rmDenied = FALSE
    /\ LockInit
    /\ lockFile = NoFile
    /\ contenders = Procs
    /\ RunInit
    /\ WaitIdle
    /\ UploadIdle
    /\ RestIdle
    /\ CheckIdle
    /\ RecoverIdle

UploadSpec == UploadInit /\ [][UploadNext]_vars

(***************************************************************************)
(* normalizeFilename (part_001:210-218).  A filename is a sequence of      *)
(* one-character strings.                                                  *)
(***************************************************************************)
Whitespace == {" "}
Quotes == {"\"", "'"}
Digits == {"0", "1", "2", "3", "4", "5", "6", "7", "8", "9"}
\* the upper-case letters the model uses, with their lower-case forms
LowerOf ==
    ("A" :> "a") @@ ("E" :> "e") @@ ("F" :> "f") @@ ("I" :> "i") @@ ("L" :> "l")
    @@ ("M" :> "m") @@ ("T" :> "t") @@ ("X" :> "x") @@ ("Y" :> "y")

\* line 212: .toLowerCase()
toLowerCase(s) ==
    [i \in 1..Len(s) |-> IF s[i] \in DOMAIN LowerOf THEN LowerOf[s[i]] ELSE s[i]]

RECURSIVE trimStart(_)
trimStart(s) ==
    IF s # << >> /\ s[1] \in Whitespace THEN trimStart(Tail(s)) ELSE s

RECURSIVE trimEnd(_)
trimEnd(s) ==
    IF s # << >> /\ s[Len(s)] \in Whitespace
    THEN trimEnd(SubSeq(s, 1, Len(s) - 1))
    ELSE s

\* lines 213 and 217: .trim()
trim(s) == trimEnd(trimStart(s))

\* line 214: .replace(/^["']|["']$/g, "") -- one quote at the start and one
\* quote at the end of what is left
stripWrappingQuotes(s) ==
    LET t == IF s # << >> /\ s[1] \in Quotes THEN Tail(s) ELSE s
    IN  IF t # << >> /\ t[Len(t)] \in Quotes THEN SubSeq(t, 1, Len(t) - 1) ELSE t

\* line 215: .replace(/\s+/g, " ")
RECURSIVE collapseWhitespace(_)
collapseWhitespace(s) ==
    IF s = << >> THEN << >>
    ELSE IF s[1] \in Whitespace
         THEN <<" ">> \o collapseWhitespace(trimStart(s))
         ELSE <<s[1]>> \o collapseWhitespace(Tail(s))

\* number of digits that end at position i of s
RECURSIVE digitRun(_, _)
digitRun(s, i) ==
    IF i >= 1 /\ s[i] \in Digits THEN 1 + digitRun(s, i - 1) ELSE 0

\* line 216: .replace(/\s*\(\d+\)$/, "") -- the match has to end where the
\* string ends
stripDuplicateSuffix(s) ==
    LET n == Len(s)
        k == IF n >= 1 /\ s[n] = ")" THEN digitRun(s, n - 1) ELSE 0
    IN  IF k >= 1 /\ n - 1 - k >= 1 /\ s[n - 1 - k] = "("
        THEN trimEnd(SubSeq(s, 1, n - 2 - k))
        ELSE s

normalizeFilename(name) ==
    trim(stripDuplicateSuffix(collapseWhitespace(stripWrappingQuotes(
        trim(toLowerCase(name))))))

\* the characters of the filenames that are enumerated
Alphabet == {"A", "a", " ", "'", "(", "1", ")", "."}
MyFile1TXT ==
    <<"M", "y", " ", "F", "i", "l", "e", " ", "(", "1", ")", ".", "T", "X", "T">>
myFileTxt == <<"m", "y", " ", "f", "i", "l", "e", ".", "t", "x", "t">>
paddedMyFileTxt == <<" ", " ">> \o myFileTxt \o <<" ", " ">>
Filenames ==
    UNION {[1..n -> Alphabet] : n \in 0..MaxNameLen}
        \cup {MyFile1TXT, myFileTxt, paddedMyFileTxt}

Normalize ==
    /\ ~applied
    /\ applied' = TRUE
    /\ normalized' = normalizeFilename(filename)
    /\ UNCHANGED <<filename, verifyVars, nonCheckVars>>

NormalizeNext == Normalize

NormalizeInit ==
    /\ rmDenied = FALSE
    /\ LockInit
    /\ lockFile = NoFile
    /\ contenders = Procs
    /\ RunInit
    /\ WaitIdle
    /\ UploadIdle
    /\ RestIdle
    /\ RecoverIdle
    /\ VerifyIdle
    /\ filename \in Filenames
    /\ normalized = << >>
    /\ applied = FALSE

NormalizeSpec == NormalizeInit /\ [][NormalizeNext]_vars

(***************************************************************************)
(* verifyAttachmentsVisible (attachments.ts:259-367) and the comparison of *)
(* runBrowserMode (part_001:209-273)                                       *)
(***************************************************************************)
aPdf == <<"a", ".", "p", "d", "f">>
bPng == <<"b", ".", "p", "n", "g">>
cPdf == <<"c", ".", "p", "d", "f">>
\* path.basename of the attachments a run may be given
AttachmentNames == {<<"A", ".", "p", "d", "f">>, bPng}
AttachmentLists == UNION {[1..n -> AttachmentNames] : n \in 1..MaxAttachments}

\* an element of the composer the expression reports, lines 316-322
Visible(name) == [filename |-> name, selector |-> "attachment-pill"]
\* what the expression may report: one attachment, or two in document order
Snapshots ==
    {<<Visible(aPdf)>>, <<Visible(bPng)>>, <<Visible(cPdf)>>,
     <<Visible(aPdf), Visible(bPng)>>, <<Visible(aPdf), Visible(cPdf)>>,
     <<Visible(bPng), Visible(cPdf)>>}
\* how a Runtime.evaluate of the loop can end: it throws, or it gives a
\* snapshot, which may be empty or undefined (both << >>)
PollResults ==
    {[threw |-> TRUE, value |-> << >>], [threw |-> FALSE, value |-> << >>]}
        \cup {[threw |-> FALSE, value |-> v] : v \in Snapshots}

\* mutant: the snapshot is returned the first time it is seen again
trustedAtOnce(n) == n >= 1

\* line 346: if (stableIterations >= 2)
trusted(n) == n >= stableThreshold

\* lines 264-268
VerifyStart ==
    /\ vpc = "idle"
    /\ vpc' = "loop"
    /\ UNCHANGED <<attachments, polled, lastSnapshotKey, stableIterations,
                   pastVerifyDeadline, visibleAttachments, missingFiles, extraFiles>>
    /\ UNCHANGED <<normVars, nonCheckVars>>

\* time passes: the clock reaches the deadline of the loop
VerifyDeadlinePasses ==
    /\ vpc = "loop"
    /\ ~pastVerifyDeadline
    /\ pastVerifyDeadline' = TRUE
    /\ UNCHANGED <<vpc, attachments, polled, lastSnapshotKey, stableIterations,
                   visibleAttachments, missingFiles, extraFiles>>
    /\ UNCHANGED <<normVars, nonCheckVars>>

\* lines 329-363: one iteration of the loop
VerifyPoll(res) ==
    /\ vpc = "loop"
    /\ ~pastVerifyDeadline
    /\ Len(polled) < MaxPolls
    /\ polled' = Append(polled, res)
    /\ IF ~res.threw /\ Len(res.value) > 0
       THEN LET same == res.value = lastSnapshotKey
                n == IF same THEN stableIterations + 1 ELSE 0
            IN  /\ lastSnapshotKey' = res.value
                /\ stableIterations' = n
                /\ IF trusted(n)
                   THEN /\ vpc' = "returned"
                        /\ visibleAttachments' = res.value
                   ELSE UNCHANGED <<vpc, visibleAttachments>>
       ELSE UNCHANGED <<lastSnapshotKey, stableIterations, vpc, visibleAttachments>>
    /\ UNCHANGED <<attachments, pastVerifyDeadline, missingFiles, extraFiles>>
    /\ UNCHANGED <<normVars, nonCheckVars>>

\* mutant: at the deadline the last snapshot seen is returned
VerifyTimeoutLast ==
    /\ vpc = "loop"
    /\ pastVerifyDeadline
    /\ vpc' = "returned"
    /\ visibleAttachments' = lastSnapshotKey
    /\ UNCHANGED <<attachments, polled, lastSnapshotKey, stableIterations,
                   pastVerifyDeadline, missingFiles, extraFiles>>
    /\ UNCHANGED <<normVars, nonCheckVars>>

\* lines 365-366: the loop ends at the deadline
VerifyTimeout ==
    /\ vpc = "loop"
    /\ pastVerifyDeadline
    /\ vpc' = "returned"
    /\ visibleAttachments' = << >>
    /\ UNCHANGED <<attachments, polled, lastSnapshotKey, stableIterations,
                   pastVerifyDeadline, missingFiles, extraFiles>>
    /\ UNCHANGED <<normVars, nonCheckVars>>

includes(list, x) == \E i \in 1..Len(list) : list[i] = x
\* part_001:220-222
expectedFilenames == [i \in 1..Len(attachments) |-> normalizeFilename(attachments[i])]
\* part_001:228
visibleFilenames ==
    [i \in 1..Len(visibleAttachments) |-> normalizeFilename(visibleAttachments[i].filename)]
notVisible(exp) == ~includes(visibleFilenames, exp)
notExpected(vis) == ~includes(expectedFilenames, vis)

\* mutant: only a surplus of visible names fails the verification
verificationFailsOnSurplus(missing, extra) ==
    Len(extra) > 0 /\ Len(visibleFilenames) # Len(expectedFilenames)

\* part_001:233-236
verificationFails(missing, extra) ==
    \/ Len(missing) > 0
    \/ (Len(extra) > 0 /\ Len(visibleFilenames) # Len(expectedFilenames))

\* part_001:230-273
VerifyCompare ==
    /\ vpc = "returned"
    /\ LET missing == SelectSeq(expectedFilenames, notVisible)
           extra == SelectSeq(visibleFilenames, notExpected)
       IN  /\ missingFiles' = missing
           /\ extraFiles' = extra
           /\ vpc' = IF verificationFails(missing, extra) THEN "failed" ELSE "verified"
    /\ UNCHANGED <<attachments, polled, lastSnapshotKey, stableIterations,
                   pastVerifyDeadline, visibleAttachments>>
    /\ UNCHANGED <<normVars, nonCheckVars>>

VerifyNext ==
    \/ VerifyStart
    \/ VerifyDeadlinePasses
    \/ \E res \in PollResults : VerifyPoll(res)
    \/ VerifyTimeout
    \/ VerifyCompare

VerifyInit ==
    /\ rmDenied = FALSE
    /\ LockInit
    /\ lockFile = NoFile
    /\ contenders = Procs
    /\ RunInit
    /\ WaitIdle
    /\ UploadIdle
    /\ RestIdle
    /\ RecoverIdle
    /\ NormalizeIdle
    /\ vpc = "idle"
    /\ attachments \in AttachmentLists
    /\ polled = << >>
    /\ lastSnapshotKey = << >>
    /\ stableIterations = 0
    /\ pastVerifyDeadline = FALSE
    /\ visibleAttachments = << >>
    /\ missingFiles = << >>
    /\ extraFiles = << >>

VerifySpec == VerifyInit /\ [][VerifyNext]_vars

(***************************************************************************)
(* navigateToSavedSession (sessionRecovery.ts:94-135).  A location is a    *)
(* sequence of one-character strings.                                      *)
(***************************************************************************)
\* the characters of the locations that are enumerated; "c", "g" and "a"
\* are characters of the class [a-zA-Z0-9-]
UrlChars == {"/", "c", "g", "a", "?"}
IdChars == {"c", "g", "a"}
\* the locations of the conversations held with a custom GPT: /g/x/c/y
GptUrls == {<<"/", "g", "/", x, "/", "c", "/", y>> : x, y \in IdChars}
Locations == UNION {[1..n -> UrlChars] : n \in 1..MaxUrlLen} \cup GptUrls
\* the locations saveSessionState may have been given: /x/y and /g/x/c/y
SavedUrls == {u \in [1..4 -> UrlChars] : u[1] = "/" /\ u[3] = "/"} \cup GptUrls

\* the longest run of identifier characters of url that starts at i
RECURSIVE idRun(_, _)
idRun(url, i) ==
    IF i <= Len(url) /\ url[i] \in IdChars
    THEN <<url[i]>> \o idRun(url, i + 1)
    ELSE << >>

\* lines 88-92: the first /c/<id> or /g/<id> of url, << >> when undefined
extractConversationId(url) ==
    LET starts == {i \in 1..Len(url) - 3 :
                     /\ url[i] = "/"
                     /\ url[i + 1] \in {"c", "g"}
                     /\ url[i + 2] = "/"
                     /\ url[i + 3] \in IdChars}
    IN  IF starts = {} THEN << >>
        ELSE idRun(url, 3 + CHOOSE i \in starts : \A j \in starts : i <= j)

\* lines 23-30: the session saveSessionState writes for url
savedSessionOf(url) == [url |-> url, conversationId |-> extractConversationId(url)]

\* mutant: only the locations are compared
sameConversationByUrl(s, url) == url = s.url

\* lines 121-130: the test of the result
sameConversation(s, url) ==
    \/ (s.conversationId # << >> /\ extractConversationId(url) = s.conversationId)
    \/ url = s.url

\* mutant: the error leaves the call
navEscape(step) ==
    /\ npc' = "threw"
    /\ failure' = step
    /\ UNCHANGED navResult

\* lines 131-134: the catch block
navCatch(step) ==
    /\ npc' = "returned"
    /\ failure' = step
    /\ navResult' = FALSE

\* lines 100-101: the call
NavStart ==
    /\ npc = "idle"
    /\ npc' = "navigate"
    /\ UNCHANGED <<navSession, pastLoadDeadline, currentUrl, navResult, failure>>
    /\ UNCHANGED nonRecoverVars

\* line 102: await Page.navigate({ url: session.url })
NavNavigate(ok) ==
    /\ npc = "navigate"
    /\ IF ok
       THEN /\ npc' = "load"
            /\ UNCHANGED <<navResult, failure>>
       ELSE navCatch("navigate")
    /\ UNCHANGED <<navSession, pastLoadDeadline, currentUrl>>
    /\ UNCHANGED nonRecoverVars

\* time passes: the clock reaches the deadline of the load wait
NavDeadlinePasses ==
    /\ npc = "load"
    /\ ~pastLoadDeadline
    /\ pastLoadDeadline' = TRUE
    /\ UNCHANGED <<npc, navSession, currentUrl, navResult, failure>>
    /\ UNCHANGED nonRecoverVars

\* lines 106-115: one iteration of the load wait
NavLoad(readyState) ==
    /\ npc = "load"
    /\ ~pastLoadDeadline
    /\ IF readyState = "throws"
       THEN navCatch("evaluate")
       ELSE /\ npc' = IF readyState \in {"complete", "interactive"} THEN "verify" ELSE "load"
            /\ UNCHANGED <<navResult, failure>>
    /\ UNCHANGED <<navSession, pastLoadDeadline, currentUrl>>
    /\ UNCHANGED nonRecoverVars

\* line 106: the load wait ends at its deadline
NavLoadTimeout ==
    /\ npc = "load"
    /\ pastLoadDeadline
    /\ npc' = "verify"
    /\ UNCHANGED <<navSession, pastLoadDeadline, currentUrl, navResult, failure>>
    /\ UNCHANGED nonRecoverVars

\* lines 118-130 when getCurrentConversationUrl gives a location
NavVerify ==
    /\ npc = "verify"
    /\ npc' = "returned"
    /\ \E url \in Locations :
          /\ currentUrl' = url
          /\ navResult' = sameConversation(navSession, url)
    /\ UNCHANGED <<navSession, pastLoadDeadline, failure>>
    /\ UNCHANGED nonRecoverVars

\* lines 118-119 when the evaluation throws, or gives no value so that
\* extractConversationId throws
NavVerifyThrows(step) ==
    /\ npc = "verify"
    /\ navCatch(step)
    /\ UNCHANGED <<navSession, pastLoadDeadline, currentUrl>>
    /\ UNCHANGED nonRecoverVars

RecoverNext ==
    \/ NavStart
    \/ \E ok \in BOOLEAN : NavNavigate(ok)
    \/ NavDeadlinePasses
    \/ \E readyState \in {"loading", "interactive", "complete", "throws"} : NavLoad(readyState)
    \/ NavLoadTimeout
    \/ NavVerify
    \/ \E step \in {"location", "undefined"} : NavVerifyThrows(step)

RecoverInit ==
    /\ rmDenied = FALSE
    /\ LockInit
    /\ lockFile = NoFile
    /\ contenders = Procs
    /\ RunInit
    /\ WaitIdle
    /\ UploadIdle
    /\ RestIdle
    /\ CheckIdle
    /\ npc = "idle"
    /\ navSession \in {savedSessionOf(url) : url \in SavedUrls}
    /\ pastLoadDeadline = FALSE
    /\ currentUrl = << >>
    /\ navResult = FALSE
    /\ failure = "none"

RecoverSpec == RecoverInit /\ [][RecoverNext]_vars

(***************************************************************************)
(* The session state store (sessionRecovery.ts:17-44)                      *)
(*                                                                         *)
(* The file's text is the list of the <<key, value>> members that          *)
(* JSON.stringify writes, in the order of the object literal; a member     *)
(* whose value is undefined is not written.  Every value is a sequence:   *)
(* a string is the sequence of its characters, the timestamp is <<n>>.     *)
(***************************************************************************)
sessionDirOfRun == "profile"
PromptChars == <<"p", "q", "r">>
\* a prompt of n characters
promptOf(n) == [i \in 1..n |-> PromptChars[(i % 3) + 1]]
PromptLengths == {0, previewLength - 1, previewLength, previewLength + 1,
                  previewLength + 50}
Prompts == {promptOf(n) : n \in PromptLengths}
\* the locations given to saveSessionState
StoreUrls == {u \in SavedUrls : u[2] \in {"c", "a"} /\ u[4] \in {"a", "g", "?"}}
undefinedPaths == [defined |-> FALSE, value |-> << >>]
\* the attachmentPaths argument: omitted, or a list of paths
PathArgs ==
    {undefinedPaths} \cup
    {[defined |-> TRUE, value |-> v] : v \in {<< >>, <<"a", "b">>, <<"b", "a">>}}

\* String.prototype.slice(start, end) for 0 <= start <= end
slice(str, start, end) ==
    SubSeq(str, start + 1, IF end < Len(str) THEN end ELSE Len(str))

\* mutant: the whole prompt is stored
previewWhole(promptText) == promptText

\* line 26: promptText.slice(0, 200)
preview(promptText) == slice(promptText, 0, previewLength)

\* lines 23-30: the session object
sessionOf(dir, url, promptText, attachmentPaths, now) ==
    [url |-> url,
     timestamp |-> now,
     promptText |-> preview(promptText),
     attachmentPaths |-> attachmentPaths,
     conversationId |-> extractConversationId(url),
     sessionDir |-> dir]

\* JSON.stringify of a session: undefined members are left out
stringify(session) ==
    <<  <<"url", session.url>>, <<"timestamp", <<session.timestamp>> >>,
        <<"promptText", session.promptText>> >>
    \o (IF session.attachmentPaths.defined
        THEN << <<"attachmentPaths", session.attachmentPaths.value>> >>
        ELSE << >>)
    \o (IF session.conversationId # << >>
        THEN << <<"conversationId", session.conversationId>> >>
        ELSE << >>)
    \o << <<"sessionDir", <<session.sessionDir>> >> >>

hasMember(entries, key) == \E i \in 1..Len(entries) : entries[i][1] = key
member(entries, key) ==
    entries[CHOOSE i \in 1..Len(entries) : entries[i][1] = key][2]

\* JSON.parse of the text of a session: a member not written reads undefined
parse(entries) ==
    [url |-> member(entries, "url"),
     timestamp |-> member(entries, "timestamp")[1],
     promptText |-> member(entries, "promptText"),
     attachmentPaths |->
        IF hasMember(entries, "attachmentPaths")
        THEN [defined |-> TRUE, value |-> member(entries, "attachmentPaths")]
        ELSE undefinedPaths,
     conversationId |->
        IF hasMember(entries, "conversationId")
        THEN member(entries, "conversationId")
        ELSE << >>,
     sessionDir |-> member(entries, "sessionDir")[1]]

\* lines 17-34: saveSessionState writes the whole file
saveSessionState(url, promptText, attachmentPaths) ==
    /\ saveCount < MaxSaves
    /\ saveCount' = saveCount + 1
    /\ lastSave' = [url |-> url, promptText |-> promptText,
                    attachmentPaths |-> attachmentPaths]
    /\ sessionFile' =
          [kind |-> "json",
           entries |-> stringify(sessionOf(sessionDirOfRun, url, promptText,
                                           attachmentPaths, saveCount + 1))]
    /\ UNCHANGED loaded

\* mutant: a failure of the read or of the parse leaves the call
loadThrows(file) ==
    IF file.kind # "json"
    THEN [kind |-> "threw", value |-> NoSession]
    ELSE [kind |-> "session", value |-> parse(file.entries)]

\* lines 36-44: readFile rejects when the file is absent, JSON.parse throws
\* on a text that is no JSON, and the catch turns both into null
loadResult(file) ==
    IF file.kind # "json"
    THEN [kind |-> "null", value |-> NoSession]
    ELSE [kind |-> "session", value |-> parse(file.entries)]

loadSessionState ==
    /\ loaded' = loadResult(sessionFile)
    /\ UNCHANGED <<sessionFile, lastSave, saveCount>>

Save ==
    /\ \E url \in StoreUrls, promptText \in Prompts, attachmentPaths \in PathArgs :
          saveSessionState(url, promptText, attachmentPaths)
    /\ UNCHANGED <<coreVars, bodyVars, monitorVars>>

Load ==
    /\ loadSessionState
    /\ UNCHANGED <<coreVars, bodyVars, monitorVars>>

StoreNext ==
    \/ Save
    \/ Load

\* the session file is absent or holds a text that does not parse
StoreInit ==
    /\ rmDenied = FALSE
    /\ LockInit
    /\ lockFile = NoFile
    /\ contenders = Procs
    /\ RunInit
    /\ WaitIdle
    /\ UploadIdle
    /\ CheckIdle
    /\ RecoverIdle
    /\ BodyIdle
    /\ MonitorIdle
    /\ sessionFile \in {[kind |-> k, entries |-> << >>] : k \in {"absent", "garbage"}}
    /\ lastSave = [url |-> << >>, promptText |-> << >>,
                   attachmentPaths |-> undefinedPaths]
    /\ saveCount = 0
    /\ loaded = [kind |-> "none", value |-> NoSession]

StoreSpec == StoreInit /\ [][StoreNext]_vars

(***************************************************************************)
(* The progress monitor (part_001:441-486)                                 *)
(***************************************************************************)
\* what Runtime.evaluate gives readThinkingStatus: a rejection, no status
\* text, or one of two status texts
StatusResults == {"error", "none", "thinking", "searching"}

\* lines 488-498: a rejection reads as null
readThinkingStatus(res) == IF res = "error" THEN "none" ELSE res

RemoveAt(seq, i) == SubSeq(seq, 1, i - 1) \o SubSeq(seq, i + 1, Len(seq))

\* mutant: a firing is skipped only when the monitor is stopped
skipsWhenStopped == stopped

\* lines 452-454: if (stopped || pending) return
skips == stopped \/ pending

\* mutant: the closure clears the interval on every call
stopEveryCall ==
    /\ stopped' = TRUE
    /\ cleared' = cleared + 1

\* lines 478-485: the closure startThinkingStatusMonitor returns
stop ==
    IF stopped
    THEN UNCHANGED <<stopped, cleared>>
    ELSE /\ stopped' = TRUE
         /\ cleared' = cleared + 1

\* lines 326 and 344: stopThinkingMonitor?.()
callStop == IF stopThinkingMonitor = "null" THEN UNCHANGED <<stopped, cleared>> ELSE stop

\* lines 473-475: finally { pending = false }; the callback returns
finish(i) ==
    /\ pending' = FALSE
    /\ inFlight' = RemoveAt(inFlight, i)

\* lines 450-455: the interval fires; clearInterval has not been called
Tick ==
    /\ stopThinkingMonitor = "set"
    /\ ~stopped
    /\ Len(ticks) < MaxTicks
    /\ ticks' = Append(ticks, IF skips THEN "skipped" ELSE "sampled")
    /\ IF skips
       THEN UNCHANGED <<pending, inFlight>>
       ELSE /\ pending' = TRUE
            /\ inFlight' = Append(inFlight, [at |-> "status", nextMessage |-> "none"])
    /\ UNCHANGED <<stopThinkingMonitor, includeDiagnostics, stopped, lastMessage, lines,
                   cleared>>
    /\ UNCHANGED <<coreVars, storeVars, bodyVars>>

\* mutant: any status text counts as new
isAnyStatus(nextMessage) == nextMessage # "none"

\* line 458: nextMessage && nextMessage !== lastMessage
isNewStatus(nextMessage) == nextMessage # "none" /\ nextMessage # lastMessage

\* lines 457-470: readThinkingStatus has resolved; a new status is logged,
\* after the snapshot when diagnostics are on
SampleStatus(i, res) ==
    /\ i \in DOMAIN inFlight
    /\ inFlight[i].at = "status"
    /\ LET nextMessage == readThinkingStatus(res)
       IN  IF isNewStatus(nextMessage)
           THEN /\ lastMessage' = nextMessage
                /\ IF includeDiagnostics
                   THEN /\ inFlight' = [inFlight EXCEPT ![i] =
                               [at |-> "snapshot", nextMessage |-> nextMessage]]
                        /\ UNCHANGED <<pending, lines>>
                   ELSE /\ lines' = Append(lines, nextMessage)
                        /\ finish(i)
           ELSE /\ finish(i)
                /\ UNCHANGED <<lastMessage, lines>>
    /\ UNCHANGED <<stopThinkingMonitor, includeDiagnostics, stopped, ticks, cleared>>
    /\ UNCHANGED <<coreVars, storeVars, bodyVars>>

\* lines 463-469: readAssistantSnapshot has resolved or rejected; the line
\* is logged either way
SampleSnapshot(i, ok) ==
    /\ i \in DOMAIN inFlight
    /\ inFlight[i].at = "snapshot"
    /\ lines' = Append(lines, inFlight[i].nextMessage)
    /\ finish(i)
    /\ UNCHANGED <<stopThinkingMonitor, includeDiagnostics, stopped, lastMessage, ticks,
                   cleared>>
    /\ UNCHANGED <<coreVars, storeVars, bodyVars>>

(***************************************************************************)
(* The try block of runBrowserMode, step by step (part_001:101-363), for   *)
(* the run of process 1 on the ChatGPT branch                              *)
(***************************************************************************)
pageVars == <<waitVars, uploadVars, checkVars, recoverVars>>
\* the prompt and the attachment paths of the run
runPrompt == promptOf(3)
runPaths == [defined |-> TRUE, value |-> <<"a", "b">>]
\* what waitForConversationUrl may return
RunUrls == {u \in StoreUrls : u[2] = "c" /\ u[4] \in {"a", "?"}}

\* the messages of the errors a step may throw
ErrorMessages ==
    { <<"WebSocket", "connection", "closed">>,
      <<"WebSocket", "is", "closed">>,
      <<"websocket", "error">>,
      <<"Target", "closed">>,
      <<"websocket", "closed">>,
      <<"connection", "closed">>,
      <<"timeout">> }

\* String.prototype.toLowerCase, word by word
lowerWord(w) ==
    CASE w = "WebSocket" -> "websocket"
      [] w = "Target" -> "target"
      [] OTHER -> w
lowerWords(message) == [i \in DOMAIN message |-> lowerWord(message[i])]

\* String.prototype.includes, word by word
includesWords(message, phrase) ==
    \E i \in 1..(Len(message) - Len(phrase) + 1) :
        SubSeq(message, i, i + Len(phrase) - 1) = phrase

\* lines 412-420
isWebSocketClosureError(message) ==
    LET lower == lowerWords(message)
    IN  \/ includesWords(lower, <<"websocket", "connection", "closed">>)
        \/ includesWords(lower, <<"websocket", "is", "closed">>)
        \/ includesWords(lower, <<"websocket", "error">>)
        \/ includesWords(lower, <<"target", "closed">>)

\* lines 358-363: "Chrome window closed before Oracle finished. Please keep
\* it open until completion."
windowClosedMessage == <<"Chrome", "window", "closed", "before", "Oracle", "finished">>

\* the awaited steps of the try block, which may throw
Awaited == {"prepare", "submit", "url", "save", "respond"}

\* the step at position from is done
advance(from, to) ==
    /\ rpc[1] = "body"
    /\ bpc = from
    /\ bpc' = to
    /\ steps' = Append(steps, from)

\* lines 107-291: window, navigation, model selection and the uploads
BodyPrepare ==
    /\ advance("prepare", "submit")
    /\ UNCHANGED <<conversationUrl, caught, thrown, initialWaitCompleted, storeVars, monitorVars>>
    /\ UNCHANGED <<envVars, lockVars, runVars, pageVars>>

\* line 292: submitPrompt
BodySubmit ==
    /\ advance("submit", "url")
    /\ UNCHANGED <<conversationUrl, caught, thrown, initialWaitCompleted, storeVars, monitorVars>>
    /\ UNCHANGED <<envVars, lockVars, runVars, pageVars>>

\* line 295: waitForConversationUrl
BodyUrl(url) ==
    /\ advance("url", "save")
    /\ conversationUrl' = url
    /\ UNCHANGED <<caught, thrown, initialWaitCompleted, storeVars, monitorVars>>
    /\ UNCHANGED <<envVars, lockVars, runVars, pageVars>>

\* lines 296-298: saveSessionState(userDataDir, conversationUrl, ...)
BodySave ==
    /\ advance("save", "monitor")
    /\ saveSessionState(conversationUrl, runPrompt, runPaths)
    /\ UNCHANGED <<conversationUrl, caught, thrown, initialWaitCompleted, monitorVars>>
    /\ UNCHANGED <<envVars, lockVars, runVars, pageVars>>

\* line 300 and lines 441-449: startThinkingStatusMonitor
BodyMonitor(verbose) ==
    /\ advance("monitor", "respond")
    /\ stopThinkingMonitor' = "set"
    /\ includeDiagnostics' = verbose
    /\ stopped' = FALSE
    /\ pending' = FALSE
    /\ lastMessage' = "none"
    /\ cleared' = 0
    /\ UNCHANGED <<ticks, inFlight, lines>>
    /\ UNCHANGED <<conversationUrl, caught, thrown, initialWaitCompleted, storeVars>>
    /\ UNCHANGED <<envVars, lockVars, runVars, pageVars>>

\* mutant: the result is returned right after the response wait
BodyRespondOnly ==
    /\ advance("respond", "result")
    /\ UNCHANGED <<conversationUrl, caught, thrown, initialWaitCompleted, storeVars, monitorVars>>
    /\ UNCHANGED <<envVars, lockVars, runVars, pageVars>>

\* lines 301-303: waitForAssistantResponse; the answer text and html are
\* taken from what it returns
BodyRespond ==
    /\ advance("respond", "capture")
    /\ UNCHANGED <<conversationUrl, caught, thrown, initialWaitCompleted, storeVars, monitorVars>>
    /\ UNCHANGED <<envVars, lockVars, runVars, pageVars>>

\* lines 304-324: captureAssistantMarkdown with retries; a failure leaves
\* the answer text as the markdown
BodyCapture ==
    /\ advance("capture", "stop")
    /\ UNCHANGED <<conversationUrl, caught, thrown, initialWaitCompleted, storeVars, monitorVars>>
    /\ UNCHANGED <<envVars, lockVars, runVars, pageVars>>

\* line 326: stopThinkingMonitor?.()
BodyStop ==
    /\ advance("stop", "result")
    /\ callStop
    /\ UNCHANGED <<stopThinkingMonitor, includeDiagnostics, pending, lastMessage, ticks,
                   inFlight, lines>>
    /\ UNCHANGED <<conversationUrl, caught, thrown, initialWaitCompleted, storeVars>>
    /\ UNCHANGED <<envVars, lockVars, runVars, pageVars>>

\* lines 327-341: the result is put together and returned through the
\* finally block
BodyReturn ==
    /\ advance("result", "done")
    /\ rpc' = [rpc EXCEPT ![1] = "finally"]
    /\ outcome' = [outcome EXCEPT ![1] = "result"]
    /\ UNCHANGED <<conversationUrl, caught, thrown, initialWaitCompleted, storeVars, monitorVars>>
    /\ UNCHANGED <<envVars, lockVars, pageVars, keepBrowser, userDataDir, chrome,
                   killCalled, client, connectionClosedUnexpectedly>>

\* lines 342-363: the catch block receives an error with the given message
caughtError(message) ==
    /\ caught' = message
    /\ callStop
    /\ catch(1, isWebSocketClosureError(message))
    /\ thrown' = IF outcome'[1] = "windowClosedError"
                 THEN [kind |-> "windowClosed", message |-> windowClosedMessage,
                       cause |-> message]
                 ELSE [kind |-> "original", message |-> message, cause |-> << >>]
    /\ bpc' = "done"
    /\ steps' = Append(steps, "catch")
    /\ UNCHANGED <<stopThinkingMonitor, includeDiagnostics, pending, lastMessage, ticks,
                   inFlight, lines>>
    /\ UNCHANGED <<conversationUrl, initialWaitCompleted, storeVars>>
    /\ UNCHANGED <<envVars, lockVars, pageVars, keepBrowser, userDataDir, chrome,
                   killCalled, client>>

\* line 102: connectToChrome throws
BodyConnectThrows(message) ==
    /\ rpc[1] = "connect"
    /\ caughtError(message)

\* one of the awaited steps of lines 107-303 throws
BodyThrows(message) ==
    /\ rpc[1] = "body"
    /\ bpc \in Awaited
    /\ caughtError(message)

\* lines 327-341: a call made while the result is put together throws
\* (estimateTokenCount, line 330), after the stop of line 326
BodyResultThrows(message) ==
    /\ rpc[1] = "body"
    /\ bpc = "result"
    /\ caughtError(message)

BodyNext ==
    \/ \E p \in Procs : DeadlinePasses(p)
    \/ \E p \in Procs : WriteLock(p)
    \/ \E p \in Procs : ReadLock(p)
    \/ \E p \in Procs : CheckOwner(p)
    \/ \E p \in Procs : RemoveStale(p)
    \/ \E p \in Procs : RetryDelay(p)
    \/ \E p \in Procs : ReleaseRead(p)
    \/ \E p \in Procs : ReleaseRm(p)
    \/ \E keep \in BOOLEAN : RunStart(1, keep)
    \/ RunLockTimeout(1)
    \/ \E ok \in BOOLEAN : RunLaunch(1, ok)
    \/ RunConnect(1)
    \/ \E message \in ErrorMessages : BodyConnectThrows(message)
    \/ BodyPrepare
    \/ BodySubmit
    \/ \E url \in RunUrls : BodyUrl(url)
    \/ BodySave
    \/ \E verbose \in BOOLEAN : BodyMonitor(verbose)
    \/ BodyRespond
    \/ BodyCapture
    \/ BodyStop
    \/ BodyReturn
    \/ \E message \in ErrorMessages : BodyThrows(message)
    \/ \E message \in ErrorMessages : BodyResultThrows(message)
    \/ Disconnect(1)
    \/ ChromeExits(1)
    \/ RunRelease(1)
    \/ \E ok \in BOOLEAN : RunClose(1, ok)
    \/ \E ok \in BOOLEAN : RunRemoveHooks(1, ok)
    \/ \E ok \in BOOLEAN : RunKill(1, ok)
    \/ \E ok \in BOOLEAN : RunRmDir(1, ok)
    \/ RunEnd(1)

\* the whole run of process 1, its try block step by step; the interval of
\* the monitor does not fire
BodySpec == (OneRunInit \/ OneRunHeld) /\ [][BodyNext]_vars

\* the try block with the callbacks of the monitor's interval
MonitorNext ==
    \/ BodyPrepare
    \/ BodySubmit
    \/ \E url \in RunUrls : BodyUrl(url)
    \/ BodySave
    \/ \E verbose \in BOOLEAN : BodyMonitor(verbose)
    \/ BodyRespond
    \/ BodyCapture
    \/ BodyStop
    \/ BodyReturn
    \/ \E message \in ErrorMessages : BodyThrows(message)
    \/ \E message \in ErrorMessages : BodyResultThrows(message)
    \/ Tick
    \/ \E i \in 1..MaxTicks, res \in StatusResults : SampleStatus(i, res)
    \/ \E i \in 1..MaxTicks, ok \in BOOLEAN : SampleSnapshot(i, ok)
    \/ Disconnect(1)

\* process 1 holds the lock, has launched the browser and has connected to
\* it (line 102): the try block is about to run
MonitorInit ==
    /\ rmDenied = FALSE
    /\ WaitIdle
    /\ UploadIdle
    /\ RestIdle
    /\ CheckIdle
    /\ RecoverIdle
    /\ contenders = {1}
    /\ lockFile = payload(1)
    /\ initFile = NoFile
    /\ pc = [p \in Procs |-> IF p = 1 THEN "holding" ELSE "idle"]
    /\ timeoutMs = [p \in Procs |-> 0]
    /\ pastDeadline = [p \in Procs |-> FALSE]
    /\ existing = [p \in Procs |-> Null]
    /\ contended = [p \in Procs |-> FALSE]
    /\ released = [p \in Procs |-> FALSE]
    /\ releaseCalls = [p \in Procs |-> 0]
    /\ rpc = [p \in Procs |-> IF p = 1 THEN "body" ELSE "idle"]
    /\ keepBrowser \in {[p \in Procs |-> p = 1 /\ keep] : keep \in BOOLEAN}
    /\ userDataDir = [p \in Procs |-> IF p = 1 THEN "exists" ELSE "none"]
    /\ chrome = [p \in Procs |-> IF p = 1 THEN "running" ELSE "none"]
    /\ killCalled = [p \in Procs |-> FALSE]
    /\ client = [p \in Procs |-> IF p = 1 THEN "open" ELSE "null"]
    /\ connectionClosedUnexpectedly = [p \in Procs |-> FALSE]
    /\ outcome = [p \in Procs |-> "none"]

MonitorSpec == MonitorInit /\ [][MonitorNext]_vars

(***************************************************************************)
(* The attachment steps of the try block (part_001:177-292), one by one,   *)
(* for the run of process 1.  The calls of uploadAttachmentFile,           *)
(* waitForAttachmentCompletion and verifyAttachmentsVisible are taken by   *)
(* their results.                                                          *)
(***************************************************************************)
\* attachments.ts:215, the only error waitForAttachmentCompletion throws
waitTimeoutMessage ==
    <<"Attachments", "did", "not", "finish", "uploading", "before", "timeout.">>
\* lines 264-268
verificationMessage ==
    <<"Expected", "attachment(s)", "but", "only", "visible", "in", "composer.">>
\* what verifyAttachmentsVisible may return: nothing at its deadline, or a
\* snapshot of the composer
VerifyResults == {<< >>} \cup Snapshots

\* lines 107-176: window, navigation and model selection
AttachPrepare ==
    /\ advance("prepare", "uploads")
    /\ UNCHANGED <<conversationUrl, caught, thrown, initialWaitCompleted, storeVars,
                   monitorVars>>
    /\ UNCHANGED <<envVars, lockVars, runVars, pageVars>>

\* lines 177-186: without attachments the block is skipped; without the
\* DOM domain it throws; else the attachments are uploaded one after the
\* other, and an upload that throws ends the block
AttachUploads(dom, ok) ==
    /\ rpc[1] = "body"
    /\ bpc = "uploads"
    /\ IF attachments = << >>
       THEN /\ advance("uploads", "submit")
            /\ UNCHANGED <<caught, thrown, outcome, connectionClosedUnexpectedly, rpc>>
       ELSE IF dom /\ ok
       THEN /\ advance("uploads", "firstWait")
            /\ UNCHANGED <<caught, thrown, outcome, connectionClosedUnexpectedly, rpc>>
       ELSE caughtError(<<"timeout">>)
    /\ UNCHANGED <<conversationUrl, initialWaitCompleted, storeVars, monitorVars>>
    /\ UNCHANGED <<envVars, lockVars, pageVars, keepBrowser, userDataDir, chrome,
                   killCalled, client>>

\* mutant: the error of the first wait leaves the block
AttachFirstWaitStrict(ok) ==
    /\ rpc[1] = "body"
    /\ bpc = "firstWait"
    /\ IF ok
       THEN /\ advance("firstWait", "verify")
            /\ initialWaitCompleted' = TRUE
            /\ UNCHANGED <<caught, thrown, outcome, connectionClosedUnexpectedly, rpc>>
       ELSE /\ caughtError(waitTimeoutMessage)
            /\ UNCHANGED initialWaitCompleted
    /\ UNCHANGED <<conversationUrl, storeVars, monitorVars>>
    /\ UNCHANGED <<envVars, lockVars, pageVars, keepBrowser, userDataDir, chrome,
                   killCalled, client>>

\* lines 192-207: the first waitForAttachmentCompletion; its error is
\* logged and dropped
AttachFirstWait(ok) ==
    /\ advance("firstWait", "verify")
    /\ initialWaitCompleted' = ok
    /\ UNCHANGED <<caught, thrown, outcome, connectionClosedUnexpectedly, rpc>>
    /\ UNCHANGED <<conversationUrl, storeVars, monitorVars>>
    /\ UNCHANGED <<envVars, lockVars, pageVars, keepBrowser, userDataDir, chrome,
                   killCalled, client>>

\* lines 220-228: verifyAttachmentsVisible returns list
AttachVerify(list) ==
    /\ advance("verify", "compare")
    /\ vpc = "idle"
    /\ vpc' = "returned"
    /\ visibleAttachments' = list
    /\ UNCHANGED <<attachments, polled, lastSnapshotKey, stableIterations,
                   pastVerifyDeadline, missingFiles, extraFiles, normVars>>
    /\ UNCHANGED <<conversationUrl, caught, thrown, initialWaitCompleted, storeVars,
                   monitorVars>>
    /\ UNCHANGED <<envVars, lockVars, runVars, waitVars, uploadVars, recoverVars>>

\* lines 233-269: the verification has failed; the error is thrown
AttachVerificationFails ==
    /\ rpc[1] = "body"
    /\ bpc = "compare"
    /\ vpc = "failed"
    /\ caughtError(verificationMessage)
    /\ UNCHANGED <<conversationUrl, initialWaitCompleted, storeVars, monitorVars>>
    /\ UNCHANGED <<envVars, lockVars, pageVars, keepBrowser, userDataDir, chrome,
                   killCalled, client>>

\* lines 271-273: the verification has passed
AttachVerified ==
    /\ advance("compare", "recheck")
    /\ vpc = "verified"
    /\ UNCHANGED <<conversationUrl, caught, thrown, initialWaitCompleted, storeVars,
                   monitorVars>>
    /\ UNCHANGED <<envVars, lockVars, runVars, pageVars>>

\* lines 278-284: the second waitForAttachmentCompletion, with a budget of
\* 5000 ms; its error leaves the block
AttachRecheck(ok) ==
    /\ rpc[1] = "body"
    /\ bpc = "recheck"
    /\ initialWaitCompleted
    /\ IF ok
       THEN /\ advance("recheck", "submit")
            /\ UNCHANGED <<caught, thrown, outcome, connectionClosedUnexpectedly, rpc>>
       ELSE caughtError(waitTimeoutMessage)
    /\ UNCHANGED <<conversationUrl, initialWaitCompleted, storeVars, monitorVars>>
    /\ UNCHANGED <<envVars, lockVars, pageVars, keepBrowser, userDataDir, chrome,
                   killCalled, client>>

\* lines 285-290: the second wait is skipped
AttachSkip ==
    /\ rpc[1] = "body"
    /\ bpc = "recheck"
    /\ ~initialWaitCompleted
    /\ bpc' = "submit"
    /\ steps' = Append(steps, "skip")
    /\ UNCHANGED <<conversationUrl, caught, thrown, initialWaitCompleted, storeVars,
                   monitorVars>>
    /\ UNCHANGED <<envVars, lockVars, runVars, pageVars>>

\* line 292: submitPrompt throws
AttachSubmitThrows(message) ==
    /\ rpc[1] = "body"
    /\ bpc = "submit"
    /\ caughtError(message)
    /\ UNCHANGED <<conversationUrl, initialWaitCompleted, storeVars, monitorVars>>
    /\ UNCHANGED <<envVars, lockVars, pageVars, keepBrowser, userDataDir, chrome,
                   killCalled, client>>

AttachNext ==
    \/ AttachPrepare
    \/ \E dom, ok \in BOOLEAN : AttachUploads(dom, ok)
    \/ \E ok \in BOOLEAN : AttachFirstWait(ok)
    \/ \E list \in VerifyResults : AttachVerify(list)
    \/ VerifyCompare
    \/ AttachVerificationFails
    \/ AttachVerified
    \/ \E ok \in BOOLEAN : AttachRecheck(ok)
    \/ AttachSkip
    \/ BodySubmit
    \/ \E message \in ErrorMessages : AttachSubmitThrows(message)
    \/ Disconnect(1)

\* process 1 holds the lock, has launched the browser and has connected to
\* it (line 102); the run was given no, one or two attachments
AttachInit ==
    /\ rmDenied = FALSE
    /\ WaitIdle
    /\ UploadIdle
    /\ RestIdle
    /\ NormalizeIdle
    /\ RecoverIdle
    /\ vpc = "idle"
    /\ attachments \in AttachmentLists \cup {<< >>}
    /\ polled = << >>
    /\ lastSnapshotKey = << >>
    /\ stableIterations = 0
    /\ pastVerifyDeadline = FALSE
    /\ visibleAttachments = << >>
    /\ missingFiles = << >>
    /\ extraFiles = << >>
    /\ contenders = {1}
    /\ lockFile = payload(1)
    /\ initFile = NoFile
    /\ pc = [p \in Procs |-> IF p = 1 THEN "holding" ELSE "idle"]
    /\ timeoutMs = [p \in Procs |-> 0]
    /\ pastDeadline = [p \in Procs |-> FALSE]
    /\ existing = [p \in Procs |-> Null]
    /\ contended = [p \in Procs |-> FALSE]
    /\ released = [p \in Procs |-> FALSE]
    /\ releaseCalls = [p \in Procs |-> 0]
    /\ rpc = [p \in Procs |-> IF p = 1 THEN "body" ELSE "idle"]
    /\ keepBrowser \in {[p \in Procs |-> p = 1 /\ keep] : keep \in BOOLEAN}
    /\ userDataDir = [p \in Procs |-> IF p = 1 THEN "exists" ELSE "none"]
    /\ chrome = [p \in Procs |-> IF p = 1 THEN "running" ELSE "none"]
    /\ killCalled = [p \in Procs |-> FALSE]
    /\ client = [p \in Procs |-> IF p = 1 THEN "open" ELSE "null"]
    /\ connectionClosedUnexpectedly = [p \in Procs |-> FALSE]
    /\ outcome = [p \in Procs |-> "none"]

AttachSpec == AttachInit /\ [][AttachNext]_vars

(***************************************************************************)
(* Claims about runBrowserMode                                             *)
(***************************************************************************)
\* C2: one browser at a time -- across concurrent runs at most one run at
\* any time has a launched browser process that is still running (browsers
\* the caller asked to keep are not counted).
C2_OneBrowser ==
    Cardinality({p \in Procs : chrome[p] = "running" /\ ~keepBrowser[p]}) <= 1

\* C5: every run that has acquired the browser lock has called its release
\* closure by the time it returns or throws.
C5_LockReleased ==
    \A p \in Procs : (Ended(p) /\ Acquired(p)) => releaseCalls[p] >= 1

C7_ProfileRemoved ==
    \A p \in Procs :
        (Ended(p) /\ ~keepBrowser[p]) => userDataDir[p] = "removed"

(***************************************************************************)
(* Claims about the lock                                                   *)
(***************************************************************************)
\* the lock path held a record naming no live process before the first step
StaleFiles == {f \in InitialFiles : f.kind = "payload"}
\* p is between the return of acquire and its call of release
Holding(p) == pc[p] = "holding"

\* C1: mutual exclusion -- at most one live process is at any time between
\* a successful return of acquire and its own call of release, also when
\* the path initially holds a record naming a dead process.
C1_MutualExclusion == Cardinality({p \in Procs : Holding(p)}) <= 1

\* C3 (as stated): of two contenders on an initially free path the one that
\* observed contention eventually succeeds once the first has called
\* release; so it is never the case that the first has called release and
\* the other's acquire has ended with the timeout error.
C3_WaiterNeverFails ==
    (initFile = NoFile /\ ~rmDenied /\ Cardinality(contenders) = 2)
        => \A p, q \in Procs :
              ~(p # q /\ releaseCalls[p] >= 1 /\ pc[q] = "timedout")

C3_Exclusive ==
    initFile = NoFile =>
        /\ \A p, q \in Procs :
              (p # q /\ Acquired(p) /\ Acquired(q))
                  => (releaseCalls[p] >= 1 \/ releaseCalls[q] >= 1)
        /\ (\E q \in Procs : contended[q])
              => \E p \in Procs : ~contended[p] /\ Acquired(p)

C3_WaiterProceeds ==
    \A p, q \in Procs :
        (/\ initFile = NoFile /\ ~rmDenied /\ Cardinality(contenders) = 2
         /\ p # q /\ releaseCalls[p] >= 1 /\ Acquiring(q))
            ~> (Acquired(q) \/ pc[q] = "timedout")

\* C3 (amended): for two contenders racing acquire on an initially free
\* path, one succeeds without observing contention; the other does not
\* succeed before the first has called release, and once the first has
\* called release it eventually succeeds or, if its deadline has passed,
\* fails with the timeout error.
C3_Racing == []C3_Exclusive /\ C3_WaiterProceeds

\* a contender that observed contention has acquired after the first released
C3_Witness ==
    /\ initFile = NoFile /\ Cardinality(contenders) = 2
    /\ \E p, q \in Procs :
          /\ p # q /\ ~contended[p] /\ pc[p] = "relDone"
          /\ contended[q] /\ Holding(q)

\* the only contender, on a path whose record names no live process
SoloStale == Cardinality(contenders) = 1 /\ initFile \in StaleFiles

\* the record p has read names no live process
ReadStale(p) ==
    /\ pc[p] = "check"
    /\ (existing[p].frac \/ existing[p].pid \notin Procs)

C4_NoTimeout ==
    SoloStale => \A p \in Procs :
        /\ pc[p] # "timedout"
        /\ Holding(p) => lockFile = payload(p)

C4_StaleStep ==
    \A p \in Procs :
        (ReadStale(p) /\ pc'[p] # pc[p]) => (pc'[p] = "rm" /\ lockFile' = lockFile)

C4_Returns ==
    \A p \in Procs : (SoloStale /\ ~rmDenied /\ Acquiring(p)) ~> Acquired(p)

\* C4: an acquire against a lock path whose record names a process that is
\* not alive (or a pid <= 0, or a non-integer pid) never raises the timeout
\* error, whatever the timeout and however late the clock: on reading such
\* a record it goes on to remove it, and where the removal works and no
\* other process contends it returns successfully with its own record written.
C4_Staleness == []C4_NoTimeout /\ [][C4_StaleStep]_vars /\ C4_Returns

\* the only contender found the stale record, removed it and has acquired
C4_Witness ==
    /\ SoloStale
    /\ \E p \in Procs : /\ contended[p] /\ Holding(p) /\ lockFile = payload(p)

C10_SecondCallNoop ==
    \A p \in Procs :
        (released[p] /\ releaseCalls'[p] = releaseCalls[p] + 1)
            => (lockFile' = lockFile /\ pc' = pc /\ released' = released)

C10_FileAfterRelease ==
    \A p \in Procs :
        (released[p] /\ pc[p] = "relDone" /\ ~rmDenied) => lockFile # payload(p)

\* C10: release is idempotent -- a second call of the closure returns at
\* once: it raises nothing, reads and deletes nothing, and leaves the lock
\* path as the first call left it (absent, or holding another process's
\* record), whether the first call has finished or is still in progress.
C10_IdempotentRelease == []C10_FileAfterRelease /\ [][C10_SecondCallNoop]_vars

\* the closure has been called twice and the lock path is absent
C10_Witness ==
    \E p \in Procs :
        releaseCalls[p] = 2 /\ pc[p] = "relDone" /\ lockFile = NoFile

(***************************************************************************)
(* Claims about waitForAttachmentCompletion                                *)
(***************************************************************************)
\* C8: debounced completion -- waitForAttachmentCompletion returns only when
\* the last three results of its probe were each ready, not uploading and
\* at the baseline location; so after a result that is busy or elsewhere
\* (a flip ready -> busy -> ready) it does not return before three more
\* results in a row qualify.
C8_Debounced ==
    wpc = "returned" =>
        /\ Len(seen) = 3
        /\ lastUrl \in Urls
        /\ \A i \in 1..3 : seen[i].ready /\ seen[i].url = lastUrl

\* the wait has returned after a second or third check had failed its test
C8_Witness ==
    /\ wpc = "returned"
    /\ restarted

\* the wait ends with an error only from the deadline test of its loop
C9_OnlyTimeoutFails ==
    (wpc # "threw" /\ wpc' = "threw") => (wpc = "capture" /\ pastWaitDeadline)

\* when the navigation guard is left, the baseline is the new location the
\* poll observed or the location of the page after the recovery
C9_GuardRebaselines ==
    (InGuard /\ wpc' \notin {"load", "recover", "settle2000", "geturl", "settle1000"})
        => lastUrl' \in {valueUrl, page'.url}

\* C9: navigation guard -- a change of the observed location never makes
\* the wait fail by itself: whether recovery succeeds, fails or is not
\* possible, the wait goes on polling with the new or the recovered location
\* as baseline, and only the timeout ends it with an error.
C9_NavigationGuard == [][C9_OnlyTimeoutFails /\ C9_GuardRebaselines]_vars

(***************************************************************************)
(* Further claims about the lock                                           *)
(***************************************************************************)
\* a step of p's release closure deletes the lock file
ReleaseDeletes(p) ==
    /\ pc[p] \in {"relRead", "relRm"}
    /\ pc'[p] # pc[p]
    /\ lockFile # NoFile
    /\ lockFile' = NoFile

\* C11: release deletes the lock record only if the record identifies the
\* caller's own process id at the time of the deletion; a record written by
\* a different process is never deleted by release, in any interleaving of
\* release with other processes' acquire.
C11_ReleaseDeletesOwnOnly ==
    [][\A p \in Procs : ReleaseDeletes(p) => lockFile = payload(p)]_vars

\* the only contender, on a path that is initially absent
SoloFree == Cardinality(contenders) = 1 /\ initFile = NoFile

C12_FileFollows ==
    SoloFree => \A p \in Procs :
        /\ pc[p] # "timedout"
        /\ Holding(p) => (lockFile = payload(p) /\ ~contended[p])
        /\ (pc[p] = "relDone" /\ ~rmDenied) => lockFile = NoFile

C12_Completes ==
    \A p \in Procs :
        /\ (SoloFree /\ Acquiring(p)) ~> Holding(p)
        /\ (SoloFree /\ pc[p] = "relRead") ~> (pc[p] = "relDone")

\* C12: acquire/release round trip -- starting with the lock file absent,
\* acquire returns its release function at the first attempt and the lock
\* file then holds the caller's process id; the release then runs to its end
\* and leaves the lock file absent again (where the removal works).
C12_RoundTrip == []C12_FileFollows /\ C12_Completes

\* the only contender has acquired on a free path and released again
C12_Witness ==
    /\ SoloFree /\ ~rmDenied
    /\ \E p \in Procs : pc[p] = "relDone" /\ releaseCalls[p] >= 1 /\ lockFile = NoFile

\* the record p has read names a live process
ReadLive(p) ==
    /\ pc[p] = "check"
    /\ ~existing[p].frac
    /\ existing[p].pid \in Procs

\* p's call of acquire ends with the timeout error in this step
RaisesTimeout(p) == pc[p] # "timedout" /\ pc'[p] = "timedout"

C13_OnlyThen ==
    \A p \in Procs :
        RaisesTimeout(p) => (ReadLive(p) /\ timeoutMs[p] > 0 /\ pastDeadline[p])

C13_Then ==
    \A p \in Procs :
        (ReadLive(p) /\ timeoutMs[p] > 0 /\ pastDeadline[p] /\ pc'[p] # pc[p])
            => RaisesTimeout(p)

C13_Eventually ==
    \A p \in Procs :
        (/\ Acquiring(p) /\ timeoutMs[p] > 0 /\ pastDeadline[p]
         /\ \E q \in Procs \ {p} : lockFile = payload(q))
            ~> (pc[p] = "timedout" \/ Acquired(p))

\* C13: lock timeout -- acquire raises the timeout error only with a
\* positive timeout, after its deadline, on having read a record that names
\* a live process, and in that situation its next step raises it; a waiter
\* past its deadline facing a live process's record ends with the timeout
\* error unless the lock comes free first; with timeout 0 the timeout error
\* is never raised, however late the clock.
C13_LockTimeout == [][C13_OnlyThen /\ C13_Then]_vars /\ C13_Eventually

\* an acquire has ended with the timeout error while another process holds
C13_Witness ==
    \E p, q \in Procs :
        /\ p # q /\ pc[p] = "timedout"
        /\ Holding(q) /\ lockFile = payload(q)

(***************************************************************************)
(* Further claims about runBrowserMode                                     *)
(***************************************************************************)
\* the acquire of p's run has failed with the timeout error
LockTimedOut(p) == rpc[p] # "idle" /\ pc[p] = "timedout"

C14_BrowserUntouched ==
    \A p \in Procs :
        LockTimedOut(p) =>
            /\ rpc[p] \in {"acquire", "threw"}
            /\ chrome[p] = "none"
            /\ client[p] = "null"
            /\ ~killCalled[p]
            /\ Ended(p) => outcome[p] = "lockTimeout"

C14_Surfaces ==
    \A p \in Procs :
        (LockTimedOut(p) /\ rpc'[p] # rpc[p])
            => (rpc'[p] = "threw" /\ outcome'[p] = "lockTimeout")

\* C14: if the lock acquisition fails with the timeout error, the next step
\* of runBrowserMode throws that error to its caller, and the run has not
\* launched a browser, opened a connection or entered the steps that
\* navigate.
C14_LockTimeoutSurfaced == []C14_BrowserUntouched /\ [][C14_Surfaces]_vars

\* a run has thrown the timeout error of the lock
C14_Witness ==
    \E p \in Procs : rpc[p] = "threw" /\ outcome[p] = "lockTimeout" /\ pc[p] = "timedout"

(***************************************************************************)
(* Claims about uploadAttachmentFile                                       *)
(***************************************************************************)
\* the step starts another locate -> assign -> confirm attempt
NewAttempt == attempt >= 1 /\ attempt' = attempt + 1

\* C15 (as stated): only a stale-element failure leads to another attempt,
\* up to 3 attempts in total; any other failure (file input not located,
\* registration not confirmed within the poll, any other channel error)
\* aborts the upload without a further attempt.
C15_OnlyStaleRetries ==
    [][NewAttempt => (lastError = "stale" /\ attempt < maxAttempts)]_vars

C15_RetryStep ==
    NewAttempt =>
        /\ lastError \in {"stale", "locate", "mismatch"}
        /\ attempt < maxAttempts

\* an attempt that fails in one of the three retried ways before the last
\* attempt is followed by the backoff, which starts the next attempt
C15_Retried ==
    (/\ Len(outcomes') = Len(outcomes) + 1
     /\ outcomes'[Len(outcomes')] \in {"stale", "locate", "mismatch"}
     /\ attempt < maxAttempts) => upc' = "backoff"

C15_Attempts ==
    /\ attempt <= maxAttempts
    /\ Len(outcomes) <= attempt
    /\ \A i \in 1..Len(outcomes) :
          outcomes[i] = "channel" => (i = Len(outcomes) /\ upc \in {"capture", "threw"})
    /\ (upc = "threw" /\ lastError # "domUnavailable") =>
          (Len(outcomes) >= 1 /\ lastError = outcomes[Len(outcomes)])

\* C15 (amended): a stale-element error raised by the assignment or the
\* confirmation, a file input that is not located and a registration that
\* is not confirmed within the poll each lead to another attempt, up to 3
\* attempts in total, and nothing else does; any other error raised by the
\* assignment or the confirmation, and any error raised while locating,
\* ends the upload without a further attempt, and the error of a failed
\* upload is the one of its last attempt.
C15_RetryPolicy == [][C15_RetryStep /\ C15_Retried]_vars /\ []C15_Attempts

\* the upload has failed at its third attempt, after an attempt that did
\* not locate the file input and one whose registration was not confirmed
C15_Witness ==
    /\ upc = "threw"
    /\ Len(outcomes) = 3
    /\ outcomes[1] = "locate"
    /\ outcomes[2] = "mismatch"

(***************************************************************************)
(* Claims about the attachment verification                                *)
(***************************************************************************)
Range(list) == {list[i] : i \in 1..Len(list)}
Compared == vpc \in {"failed", "verified"}

\* C16: visual verification outcome -- after sampling, the pipeline fails
\* with the attachment-verification error whenever the normalized set of
\* visible filenames differs from the normalized set of expected filenames
\* (any missing or any unexpected name) and passes only when the two sets
\* are equal; the missing and the unexpected names are the two differences.
C16_FailsIffSetsDiffer ==
    Compared =>
        /\ (vpc = "failed") <=> (Range(visibleFilenames) # Range(expectedFilenames))
        /\ Range(missingFiles) = Range(expectedFilenames) \ Range(visibleFilenames)
        /\ Range(extraFiles) = Range(visibleFilenames) \ Range(expectedFilenames)

\* the poll found at least one attachment
isSnapshot(res) == ~res.threw /\ Len(res.value) > 0
\* the step is an iteration of the loop of verifyAttachmentsVisible
Polls == Len(polled') = Len(polled) + 1
\* the step returns what its poll has found
ReturnsSample ==
    /\ vpc' = "returned"
    /\ visibleAttachments' = polled'[Len(polled')].value

\* C17 (as stated): visual debounce -- verifyAttachmentsVisible trusts a
\* sampled set once the same non-empty set has been observed on two
\* consecutive polls: the second of two equal non-empty polls returns it.
C17_TwoPollsSuffice ==
    [][(/\ Polls
        /\ Len(polled) >= 1
        /\ isSnapshot(polled'[Len(polled')])
        /\ polled'[Len(polled')] = polled[Len(polled)]) => ReturnsSample]_vars

\* the last poll found a snapshot, and the two polls before it that found
\* any attachment found the same snapshot
Settled(history) ==
    LET found == SelectSeq(history, isSnapshot)
        n == Len(found)
    IN  /\ history # << >>
        /\ isSnapshot(history[Len(history)])
        /\ n >= 3
        /\ found[n - 1] = found[n]
        /\ found[n - 2] = found[n]

C17_ReturnStep == Polls => (ReturnsSample <=> Settled(polled'))

C17_Result ==
    /\ vpc = "loop" => ~Settled(polled)
    /\ (vpc # "idle" /\ vpc # "loop") =>
          \/ visibleAttachments = << >> /\ pastVerifyDeadline
          \/ /\ Settled(polled)
             /\ visibleAttachments = polled[Len(polled)].value

\* C17 (amended): visual debounce -- verifyAttachmentsVisible trusts a
\* sampled snapshot once the same non-empty snapshot has been observed on
\* three polls with no different non-empty snapshot between them (polls
\* that fail or find nothing are skipped), and returns it at that poll;
\* otherwise it returns nothing at its deadline.  With samples [a.pdf], then
\* [a.pdf, b.png] three times, it returns [a.pdf, b.png] at the fourth poll
\* and the pipeline succeeds with 2/2 matched.
C17_Debounce == [][C17_ReturnStep]_vars /\ []C17_Result

\* the samples are [a.pdf], then [a.pdf, b.png] three times, and the
\* verification of the two attachments has passed
C17_Witness ==
    /\ vpc = "verified"
    /\ Len(attachments) = 2
    /\ Len(visibleFilenames) = 2
    /\ Len(polled) = 4
    /\ polled[1].value = <<Visible(aPdf)>>
    /\ \A i \in 2..4 : polled[i].value = <<Visible(aPdf), Visible(bPng)>>

(***************************************************************************)
(* Claims about normalizeFilename                                          *)
(***************************************************************************)
\* name with every whitespace character written twice
RECURSIVE repeatWhitespace(_)
repeatWhitespace(name) ==
    IF name = << >> THEN << >>
    ELSE (IF name[1] \in Whitespace THEN <<name[1], name[1]>> ELSE <<name[1]>>)
            \o repeatWhitespace(Tail(name))

\* name as the second copy of a file: " (1)" before the extension, or at
\* the end of a name without extension
duplicateOf(name) ==
    LET dots == {i \in 1..Len(name) : name[i] = "."}
        e == IF dots = {} THEN Len(name) + 1
             ELSE CHOOSE i \in dots : \A j \in dots : j <= i
    IN  SubSeq(name, 1, e - 1) \o <<" ", "(", "1", ")">> \o SubSeq(name, e, Len(name))

\* C18: filename normalization maps names that differ only by letter case,
\* wrapping quotes, surrounding or repeated whitespace, or a "(n)"
\* duplicate-count suffix to the same key; in particular "My File (1).TXT",
\* "my file.txt" and "  my file.txt  " all normalize to the same key.
C18_SameKey ==
    applied =>
        /\ normalizeFilename(toLowerCase(filename)) = normalized
        /\ normalizeFilename(<<" ">> \o filename \o <<" ">>) = normalized
        /\ normalizeFilename(repeatWhitespace(filename)) = normalized
        /\ Range(filename) \cap Quotes = {} =>
              normalizeFilename(<<"\"">> \o filename \o <<"\"">>) = normalized
        /\ normalizeFilename(duplicateOf(filename)) = normalized
        /\ filename \in {MyFile1TXT, myFileTxt, paddedMyFileTxt} =>
              normalized = myFileTxt

(***************************************************************************)
(* Claims about navigateToSavedSession                                     *)
(***************************************************************************)
\* the call has returned after reading the location of the page
Compares == npc = "returned" /\ failure = "none"
\* the location read is the saved one with a query added
QueryAdded ==
    /\ Len(currentUrl) > Len(navSession.url)
    /\ SubSeq(currentUrl, 1, Len(navSession.url)) = navSession.url
    /\ currentUrl[Len(navSession.url) + 1] = "?"

\* C19: recovery result -- navigateToSavedSession returns true exactly when
\* the conversation identifier derived from the post-navigation location
\* equals the saved identifier, or no identifier was saved and the
\* post-navigation location exactly equals the saved location; it returns
\* true for a saved identifier even when the raw location differs from the
\* saved one by added query parameters, and false in every other case.
C19_RecoveryResult ==
    /\ Compares =>
          (navResult <=>
              \/ /\ navSession.conversationId # << >>
                 /\ extractConversationId(currentUrl) = navSession.conversationId
              \/ /\ navSession.conversationId = << >>
                 /\ currentUrl = navSession.url)
    /\ (Compares /\ navSession.conversationId # << >> /\ QueryAdded) => navResult
    /\ (npc = "returned" /\ failure # "none") => ~navResult

\* a session with an identifier is recovered at a location that is the saved
\* one with a query added
C19_Witness ==
    /\ Compares
    /\ navSession.conversationId # << >>
    /\ QueryAdded
    /\ navResult

\* C20: navigateToSavedSession never throws -- a failing navigation, a
\* failing page evaluation, or a document that never reaches a loaded state
\* is reported as the result false (or as the normal identifier/location
\* comparison), never as an exception to the caller.
C20_NeverThrows ==
    /\ npc # "threw"
    /\ (npc = "returned" /\ failure # "none") => ~navResult
    /\ (npc = "returned" /\ failure = "none") =>
          (navResult <=> sameConversation(navSession, currentUrl))

\* the call has returned false after its navigation or an evaluation failed
C20_Witness ==
    /\ npc = "returned"
    /\ failure \in {"navigate", "evaluate", "location"}
    /\ ~navResult

(***************************************************************************)
(* Claims about a corrupt lock file                                        *)
(***************************************************************************)
\* p leaves its read of a lock path that holds a corrupt payload
ReadsCorrupt(p) == pc[p] = "read" /\ pc'[p] # "read" /\ lockFile = Corrupt

C30_FileKept == lockFile = Corrupt => lockFile' = Corrupt

C30_OnlyBackoff ==
    \A p \in Procs :
        /\ ReadsCorrupt(p) => (pc'[p] = "delay" /\ existing'[p] = Null)
        /\ (lockFile = Corrupt /\ pc[p] = "delay" /\ pc'[p] # "delay") => pc'[p] = "write"
        /\ lockFile = Corrupt => pc'[p] \notin {"rm", "holding"}

\* C30: corrupt lock payload -- when acquire finds the lock path occupied by
\* an unreadable or structurally invalid payload, it never deletes or
\* overwrites that file; it only waits the fixed backoff and retries.
C30_CorruptNeverDeleted == [][C30_FileKept /\ C30_OnlyBackoff]_vars

\* a contender has found the corrupt payload, waited and is at its next
\* attempt to create the file, which is still there
C30_Witness ==
    /\ lockFile = Corrupt
    /\ \E p \in Procs : contended[p] /\ pc[p] = "write"

(***************************************************************************)
(* Further claims about waitForAttachmentCompletion                        *)
(***************************************************************************)
\* the last three results of the probe were ready, idle and at the baseline
Confirmed ==
    /\ Len(seen) = 3
    /\ \A i \in 1..3 : seen[i].ready /\ seen[i].url = lastUrl

\* the test of the loop with the deadline passed goes to the capture, and
\* the capture is followed by the timeout error
C28_CaptureThenFail ==
    /\ (wpc = "loop" /\ pastWaitDeadline /\ wpc' # "loop") => wpc' = "capture"
    /\ (wpc = "capture" /\ wpc' # "capture") => wpc' = "threw"
    /\ (wpc # "threw" /\ wpc' = "threw") => (wpc = "capture" /\ pastWaitDeadline)
    /\ (wpc # "capture" /\ wpc' = "capture") => pastWaitDeadline

C28_NoReturnUnconfirmed ==
    /\ wpc = "returned" => Confirmed
    /\ wpc = "threw" => pastWaitDeadline

\* C28: completion timeout -- when the deadline of
\* waitForAttachmentCompletion passes without a debounced confirmation, it
\* first emits the diagnostic capture of the current document state and
\* then fails with the timeout error; it never returns normally without a
\* confirmation.
C28_CompletionTimeout == [][C28_CaptureThenFail]_vars /\ []C28_NoReturnUnconfirmed

\* the wait has failed with the timeout error after a confirmation had
\* begun: its last result was ready and idle
C28_Witness ==
    /\ wpc = "threw"
    /\ Len(seen) >= 1
    /\ seen[Len(seen)].ready

\* the steps of the wait that evaluate in the page or recover the session
Evaluates == wpc \in {"probe", "load", "recover", "geturl", "confirm", "final"}

C29_NotYetReady ==
    /\ (Evaluates /\ wpc' # wpc) => wpc' # "threw"
    /\ (wpc = "catch" /\ wpc' # "catch") =>
          (wpc' = "delay250" /\ seen' = seen /\ lastUrl' = lastUrl)
    /\ (wpc = "delay250" /\ wpc' # "delay250") => wpc' = "loop"
    /\ (wpc = "loop" /\ ~pastWaitDeadline /\ wpc' # "loop") => wpc' = "probe"
    /\ (wpc # "threw" /\ wpc' = "threw") => wpc = "capture"

\* C29: any error raised by a page evaluation (or by a recovery step)
\* during waitForAttachmentCompletion, at the first, second or third check,
\* is logged and treated as "not yet ready": the wait continues polling and
\* the only error it can raise is the timeout error.
C29_EvaluationErrors == [][C29_NotYetReady]_vars

\* the third check has thrown after the first two were passed, and the wait
\* is in its catch block
C29_Witness ==
    /\ wpc = "catch"
    /\ Len(seen) >= 2
    /\ \A i \in Len(seen) - 1..Len(seen) : seen[i].ready /\ seen[i].url = lastUrl

(***************************************************************************)
(* Further claims about verifyAttachmentsVisible                           *)
(***************************************************************************)
\* every poll so far has returned the same non-empty list
AllSame ==
    /\ Len(polled) >= 1
    /\ \A i \in 1..Len(polled) : isSnapshot(polled[i]) /\ polled[i] = polled[1]
VerifyReturned == vpc \notin {"idle", "loop"}

\* C24 (as stated): if every poll of the page returns the same non-empty
\* list of visible attachments, verifyAttachmentsVisible returns exactly
\* that list before its timeout, rather than the empty list.
C24_ReturnsTheList ==
    (VerifyReturned /\ AllSame) => visibleAttachments = polled[1].value

\* C24 (amended): if every poll of the page returns the same non-empty list
\* of visible attachments, verifyAttachmentsVisible returns exactly that
\* list at its third poll, provided the timeout leaves room for three polls;
\* when the deadline passes before the third poll it returns the empty list.
C24_ReturnsAtThirdPoll ==
    AllSame =>
        /\ vpc = "loop" => Len(polled) <= stableThreshold
        /\ VerifyReturned =>
              IF Len(polled) > stableThreshold
              THEN /\ Len(polled) = stableThreshold + 1
                   /\ visibleAttachments = polled[1].value
              ELSE visibleAttachments = << >> /\ pastVerifyDeadline

\* three polls have returned the same list and the call has returned it
C24_Witness ==
    /\ vpc = "returned"
    /\ AllSame
    /\ Len(polled) = 3
    /\ visibleAttachments = polled[1].value

(***************************************************************************)
(* Claims about the session state store                                    *)
(***************************************************************************)
\* the first n characters of str
FirstChars(str, n) == [i \in 1..(IF Len(str) < n THEN Len(str) ELSE n) |-> str[i]]

\* the record describes the latest save and nothing of an earlier one
DescribesLastSave(record) ==
    /\ record.url = lastSave.url
    /\ record.promptText = FirstChars(lastSave.promptText, 200)
    /\ record.attachmentPaths = lastSave.attachmentPaths
    /\ record.conversationId = extractConversationId(lastSave.url)
    /\ record.sessionDir = sessionDirOfRun
    /\ record.timestamp = saveCount

C21_LoadStep ==
    loaded' # loaded =>
        IF saveCount = 0
        THEN loaded'.kind = "null"
        ELSE loaded'.kind = "session" /\ DescribesLastSave(loaded'.value)

\* C21: after save(dir, location, prompt, paths), load(dir) returns a record
\* with that location, the first 200 characters of the prompt, the paths in
\* the same order and the identifier derived from the location; a later save
\* to the same directory fully replaces the earlier record; load on a
\* directory with no or unparseable state returns absent without throwing.
C21_SaveLoad == [][C21_LoadStep]_vars /\ [](loaded.kind # "threw")

\* a second save, of a location without identifier, no paths and a prompt
\* longer than the preview, has been loaded
C21_Witness ==
    /\ saveCount = 2
    /\ loaded.kind = "session"
    /\ loaded.value.timestamp = 2
    /\ loaded.value.conversationId = << >>
    /\ ~loaded.value.attachmentPaths.defined
    /\ Len(lastSave.promptText) > 200
    /\ Len(loaded.value.promptText) = 200

(***************************************************************************)
(* Claims about the cleanup of runBrowserMode                              *)
(***************************************************************************)
\* the positions of the finally block, lines 364-394
CleanupPhases == {"finally", "releasing", "hooks", "kill", "rmdir", "end"}

\* between its entry and its last line the finally block neither changes
\* what the run returns or throws nor is left
C25_CleanupStep(p) ==
    rpc[p] \in CleanupPhases =>
        /\ outcome'[p] = outcome[p]
        /\ rpc'[p] \in CleanupPhases \cup {"returned", "threw"}
        /\ rpc'[p] \in {"returned", "threw"} => rpc[p] = "end"

\* C25: in the cleanup phase of runBrowserMode, a failure of any one step
\* (lock release, connection close, termination-hook removal, browser kill,
\* profile-directory removal) neither prevents any later step from running
\* nor replaces the run's own result or error.
C25_CleanupIndependent == [][\A p \in Procs : C25_CleanupStep(p)]_vars

(***************************************************************************)
(* Claims about the progress monitor                                       *)
(***************************************************************************)
\* a firing while a sample is in flight starts nothing and queues nothing;
\* a sample starts only at a firing; a sample that ends clears the flag
C27_Step ==
    /\ (ticks' # ticks /\ pending) => (inFlight' = inFlight /\ pending' = pending)
    /\ Len(inFlight') > Len(inFlight) => ticks' = Append(ticks, "sampled")
    /\ Len(inFlight') < Len(inFlight) => ~pending'

\* C27: the progress monitor never has two samples in flight at once; a
\* timer tick that fires while a previous sample has not finished is skipped
\* (not queued), and the guard is cleared after every sample whether it
\* succeeded or failed, so later ticks can sample again.
C27_InFlightGuard ==
    /\ [](Len(inFlight) <= 1 /\ (pending <=> inFlight # << >>))
    /\ [][C27_Step]_vars

\* the second firing was skipped, the first sample has ended without a line
\* and the third firing has started a sample
C27_Witness ==
    /\ ticks = <<"sampled", "skipped", "sampled">>
    /\ Len(inFlight) = 1
    /\ lines = << >>

\* once stopped, the monitor starts no sample and logs no line
C22_QuietStep == stopped => (lines' = lines /\ Len(inFlight') <= Len(inFlight))

\* the try block is left, by return or by throw, with the monitor stopped
C22_StoppedOnExit == (bpc = "done" /\ stopThinkingMonitor = "set") => stopped

\* C22: the progress monitor does not outlive the run: once stop() has been
\* called it starts no further sample and emits no further progress line
\* through the logger, including when a sample was in flight at the moment
\* stop() was called; and stop() is called on both the success path and the
\* failure path of every run that started the monitor.
C22_MonitorStops == [][C22_QuietStep]_vars /\ []C22_StoppedOnExit

(***************************************************************************)
(* Claims about the try block of runBrowserMode                            *)
(***************************************************************************)
\* the messages that denote a websocket or target closure
ClosureMessages ==
    { <<"WebSocket", "connection", "closed">>, <<"WebSocket", "is", "closed">>,
      <<"websocket", "error">>, <<"Target", "closed">> }

\* what the catch block throws for the error it receives
C23_CatchStep ==
    caught' # caught =>
        IF connectionClosedUnexpectedly[1] \/ caught' \in ClosureMessages
        THEN thrown' = [kind |-> "windowClosed", message |-> windowClosedMessage,
                        cause |-> caught']
        ELSE thrown' = [kind |-> "original", message |-> caught', cause |-> << >>]

\* the run that failed ends by throwing what its catch block threw
C23_RunThrows ==
    (Ended(1) /\ caught # << >>) =>
        /\ rpc[1] = "threw"
        /\ outcome[1] = IF thrown.kind = "windowClosed"
                        THEN "windowClosedError" ELSE "error"

\* C23: if the remote connection's disconnect event fired before the run
\* failed, or the failure message denotes a websocket/target closure,
\* runBrowserMode throws the distinct "keep the window open" error carrying
\* the original error as its cause; in every other failure it rethrows the
\* original error, never the connection-lost error.
C23_ConnectionLost == [][C23_CatchStep]_vars /\ []C23_RunThrows
\* step a was done before step b
Before(a, b) ==
    \E i, j \in DOMAIN steps : i < j /\ steps[i] = a /\ steps[j] = b
Done(a) == \E i \in DOMAIN steps : steps[i] = a
Completed == rpc[1] = "returned"
\* the cleanup has touched the connection, the browser or the profile
TornDown == client[1] = "closed" \/ killCalled[1] \/ userDataDir[1] = "removed"

\* C26 (as stated): in a completed non-Gemini run the steps occur in this
\* order: prompt submitted, session state persisted with the resulting
\* location, progress monitor started, response wait, progress monitor
\* stopped, answer extracted, lock released, browser torn down.  The answer
\* is extracted from the page by lines 301-324: its text and html by the
\* response wait, its markdown by the capture.
C26_StopBeforeExtract ==
    Completed =>
        /\ Before("submit", "save")
        /\ Before("save", "monitor")
        /\ Before("monitor", "respond")
        /\ Before("respond", "stop")
        /\ Before("stop", "capture")

\* the steps of a completed try block
C26_Steps ==
    <<"prepare", "submit", "url", "save", "monitor", "respond", "capture", "stop",
      "result">>

\* C26 (amended): in a completed non-Gemini run the steps occur in this
\* order: prompt submitted, session state persisted with the resulting
\* location, progress monitor started, response wait, answer extracted,
\* progress monitor stopped, result put together, lock released, browser
\* torn down; the session state is never written before the prompt is
\* submitted, and the monitor is stopped after the answer is extracted and
\* before the result is returned.
C26_RunOrder ==
    /\ Completed => steps = C26_Steps
    /\ sessionFile.kind = "json" =>
          /\ Done("submit")
          /\ parse(sessionFile.entries).url = conversationUrl
    /\ Done("result") => stopped
    /\ releaseCalls[1] >= 1 => bpc = "done"
    /\ TornDown => (releaseCalls[1] >= 1 /\ pc[1] = "relDone")

\* a run has completed: its steps are done, the lock is released, the
\* browser killed and the profile removed
C26_Witness ==
    /\ Completed
    /\ steps = C26_Steps
    /\ stopped
    /\ releaseCalls[1] >= 1
    /\ killCalled[1]
    /\ userDataDir[1] = "removed"

(***************************************************************************)
(* Claims about the stale reclaim step of acquire                          *)
(***************************************************************************)
\* p's call of acquire leaves the removal of a stale record in this step
LeavesRemoval(p) == pc[p] = "rm" /\ pc'[p] # "rm"

C31_ReclaimStep(p) ==
    LeavesRemoval(p) =>
        /\ (lockFile' = NoFile) => pc'[p] = "write"
        /\ pc'[p] = "delay" => lockFile' # NoFile

\* C31: when acquire finds a record naming a dead process and deletes it
\* successfully, its next step is a new create-if-absent attempt with no
\* backoff wait in between; the backoff wait happens only when the deletion
\* fails.
C31_ImmediateRetry == [][\A p \in Procs : C31_ReclaimStep(p)]_vars

(***************************************************************************)
(* Claims about the termination of acquire                                 *)
(***************************************************************************)
\* p's call of acquire has ended: it returned the release function or
\* threw the timeout error
AcquireEnded(p) == Acquired(p) \/ pc[p] = "timedout"

\* C37: with a positive timeout, every call of acquire eventually either
\* returns a release function or fails with an error, whatever the lock
\* file holds for the whole wait (a live holder's record, a permanently
\* unreadable or invalid payload, or a stale record that cannot be
\* removed); stated of a call whose deadline has passed.
C37_AcquireTerminates ==
    \A p \in Procs :
        (Acquiring(p) /\ timeoutMs[p] > 0 /\ pastDeadline[p]) ~> AcquireEnded(p)

(***************************************************************************)
(* Claims about the stop closure of the progress monitor                   *)
(***************************************************************************)
\* the two places that call stopThinkingMonitor?.() have both run
StoppedTwice == Done("stop") /\ Done("catch")

\* a step that calls the closure on a monitor already stopped changes
\* nothing of the monitor
C33_SecondCall ==
    (stopped /\ Len(steps') > Len(steps)) => UNCHANGED monitorVars

\* C33: stop() of the progress monitor is idempotent: calling it any number
\* of times, from the success path, the failure path or both, clears the
\* timer at most once, raises no error and leaves the monitor in the same
\* stopped state as a single call.
C33_StopIdempotent ==
    /\ [](cleared <= 1)
    /\ []((stopThinkingMonitor = "set" /\ (Done("stop") \/ Done("catch")))
             => (stopped /\ cleared = 1))
    /\ [][C33_SecondCall]_vars

\* the closure was called on the success path and again in the catch block
C33_Witness ==
    /\ StoppedTwice
    /\ stopped
    /\ cleared = 1

(***************************************************************************)
(* Claims about the progress lines of the monitor                          *)
(***************************************************************************)
\* the status texts a progress line can carry
StatusTexts == {"thinking", "searching"}

\* no two consecutive progress lines carry the same status text
NoRepeat(ls) == \A i \in 1..(Len(ls) - 1) : ls[i] # ls[i + 1]

\* a step logs at most one line, carrying the status the monitor holds as
\* its last one; a sample that ends without a new status logs nothing
C34_Step ==
    /\ lines' # lines =>
          /\ lines' = Append(lines, lastMessage')
          /\ lastMessage' \in StatusTexts
    /\ (Len(inFlight') < Len(inFlight) /\ inFlight[1].at = "status"
            /\ lastMessage' = lastMessage)
          => lines' = lines

\* C34: over any sequence of samples, the progress monitor never emits two
\* consecutive progress lines carrying the same status text, and a sample
\* that yields no status text emits nothing.
C34_Deduplicated ==
    /\ [](NoRepeat(lines) /\ \A i \in DOMAIN lines : lines[i] \in StatusTexts)
    /\ [][C34_Step]_vars

\* three samples have run to their end and two lines were logged: one
\* sample brought no status text or the one already logged
C34_Witness ==
    /\ ticks = <<"sampled", "sampled", "sampled">>
    /\ inFlight = << >>
    /\ Len(lines) = 2
    /\ lines[1] # lines[2]

(***************************************************************************)
(* Claims about the polls behind the list verifyAttachmentsVisible returns *)
(***************************************************************************)
\* the three most recent polls all gave the list
LastThreeGave(list) ==
    /\ Len(polled) >= 3
    /\ \A i \in (Len(polled) - 2)..Len(polled) :
          ~polled[i].threw /\ polled[i].value = list

\* C36: verifyAttachmentsVisible returns a non-empty list only if that
\* identical list (same filenames and selectors, same order) was the result
\* of its three most recent polls in a row, with no different result, empty
\* sample or evaluation error between them; otherwise it keeps polling and
\* returns the empty list at the timeout, and it never throws.
C36_ThreeInARow ==
    VerifyReturned =>
        \/ visibleAttachments # << >> /\ LastThreeGave(visibleAttachments)
        \/ visibleAttachments = << >> /\ pastVerifyDeadline

(***************************************************************************)
(* Claims about the attempts of uploadAttachmentFile                       *)
(***************************************************************************)
\* the call has ended, by return or by throw, or is about to
UploadEnded == upc \in {"settle", "returned", "capture", "threw"}

\* the call returns only after an attempt whose registration was confirmed,
\* and that attempt is its last
C39_Confirmed ==
    upc \in {"settle", "returned"} =>
        /\ Len(outcomes) >= 1
        /\ outcomes[Len(outcomes)] = "ok"
        /\ \A i \in 1..(Len(outcomes) - 1) : outcomes[i] # "ok"
        /\ lastError = "none"

\* attempt i < 3 that is followed by another is followed by a wait of
\* 300 ms x i; no wait follows the last attempt
C39_Waits ==
    /\ attempt <= maxAttempts
    /\ Len(outcomes) <= maxAttempts
    /\ Len(backoffs) < maxAttempts
    /\ \A i \in 1..Len(backoffs) : backoffs[i] = 300 * i
    /\ (UploadEnded /\ outcomes # << >>) => Len(backoffs) = Len(outcomes) - 1

\* C39: uploadAttachmentFile returns normally only if, in its last attempt,
\* the file input's reported file list contained the expected base
\* filename; it assigns the file at most 3 times, waits 300 ms x attempt
\* between attempts and never after the final attempt, and a failed earlier
\* attempt does not cause an error when a later attempt is confirmed.
C39_UploadAttempts ==
    /\ C39_Confirmed
    /\ C39_Waits
    /\ (outcomes # << >> /\ outcomes[Len(outcomes)] = "ok") => upc # "threw"

\* the third attempt was confirmed after two failed ones, with waits of
\* 300 and 600 ms, and the call has returned
C39_Witness ==
    /\ upc = "returned"
    /\ outcomes = <<"mismatch", "stale", "ok">>
    /\ backoffs = <<300, 600>>

(***************************************************************************)
(* Claims about the conversation a recovery lands on                       *)
(***************************************************************************)
\* the token after the first /c/ of url, << >> when there is none
conversationSegment(url) ==
    LET starts == {i \in 1..Len(url) - 3 :
                     /\ url[i] = "/"
                     /\ url[i + 1] = "c"
                     /\ url[i + 2] = "/"
                     /\ url[i + 3] \in IdChars}
    IN  IF starts = {} THEN << >>
        ELSE idRun(url, 3 + CHOOSE i \in starts : \A j \in starts : i <= j)

\* the saved location and the location after the navigation both name a
\* conversation, and not the same one
OtherConversation ==
    /\ conversationSegment(navSession.url) # << >>
    /\ conversationSegment(currentUrl) # << >>
    /\ conversationSegment(currentUrl) # conversationSegment(navSession.url)

\* C40: navigateToSavedSession never reports success when the
\* post-navigation location names a different conversation than the saved
\* location: for two locations whose conversation path segments (the token
\* after /c/) differ, including locations that contain both a /g/ segment
\* and a /c/ segment, recovery returns false.
C40_OtherConversationFails ==
    (npc = "returned" /\ failure = "none" /\ OtherConversation) => ~navResult

(***************************************************************************)
(* Claims about the recovery attempted by the navigation guard             *)
(***************************************************************************)
\* the probe of this step finds a location other than the baseline
ObservesNavigation ==
    /\ wpc = "probe"
    /\ wpc' \in {"load", "settle1000"}

\* the wait goes on from the navigation guard without a recovery attempt
ContinuesUnrecovered ==
    /\ wpc \in {"probe", "load"}
    /\ wpc' = "settle1000"

\* C35: whenever waitForAttachmentCompletion observes that the location
\* changed from the previously observed location, it attempts session
\* recovery (a re-navigation to the saved location) before continuing; this
\* holds for both waits the orchestrator performs around attachment upload,
\* which pass the page and the profile directory as recovery options.
C35_RecoversOnNavigation ==
    [][/\ (recoveryOptions /\ ObservesNavigation) => wpc' = "load"
       /\ recoveryOptions => ~ContinuesUnrecovered]_vars

(***************************************************************************)
(* Claims about the attachment steps of runBrowserMode                     *)
(***************************************************************************)
\* the first readiness wait has ended with its error
FirstWaitFailed == Done("firstWait") /\ ~initialWaitCompleted

\* the first wait never ends the block; the step after a passed
\* verification is the second wait when the first one returned, and
\* otherwise goes to the submit without a wait and without an error
C32_Step ==
    /\ bpc = "firstWait" => bpc' \in {"firstWait", "verify"}
    /\ (bpc = "recheck" /\ bpc' # "recheck") =>
          IF initialWaitCompleted
          THEN steps'[Len(steps')] \in {"recheck", "catch"}
          ELSE /\ bpc' = "submit"
               /\ steps' = Append(steps, "skip")
               /\ caught' = << >>

C32_NotSurfaced ==
    /\ Done("recheck") => initialWaitCompleted
    /\ FirstWaitFailed =>
          /\ caught # waitTimeoutMessage
          /\ thrown.message # waitTimeoutMessage
          /\ thrown.cause # waitTimeoutMessage

\* C32: the orchestrator runs the second waitForAttachmentCompletion only if
\* the first one succeeded; if the first one failed and the visual
\* verification passes, the run proceeds to submit the prompt without any
\* further readiness check, and the first wait's failure is never surfaced
\* to the caller.
C32_FinalRecheck == [][C32_Step]_vars /\ []C32_NotSurfaced

\* the first wait failed, the verification passed, the second wait was
\* skipped and the prompt has been submitted
C32_Witness ==
    /\ FirstWaitFailed
    /\ vpc = "verified"
    /\ Done("skip")
    /\ Done("submit")
    /\ caught = << >>

\* submitPrompt has been called, or is the next call
Submitting == bpc = "submit" \/ Done("submit")

C38_TimeoutWitness ==
    /\ attachments # << >>
    /\ visibleAttachments = << >>
    /\ bpc = "done"
    /\ caught = verificationMessage

====
